---- MODULE Spec2Model ----
(***************************************************************************)
(* Model of the MIME assembler create_email_with_inline_images of          *)
(* fixed_smtp_server_improved.py.                                          *)
(*                                                                         *)
(* Text is a sequence of symbols.  A symbol is either one character        *)
(* ("<", ">", " ", ",", "=", "!") or a run of characters that the code     *)
(* never looks inside ("t", "[Image]", "cid:", ...).  The placeholder      *)
(* token {{IMAGE_PLACEHOLDER}} has no proper prefix that is also a suffix, *)
(* so two occurrences never overlap; it is written as the two fragments    *)
(* "{{IMAGE_" and "PLACEHOLDER}}" so that a body can hold a fragment on    *)
(* its own, an occurrence split by a tag, or an occurrence nested inside   *)
(* another one.                                                            *)
(***************************************************************************)
EXTENDS Integers, Sequences, FiniteSets, TLC

VARIABLES pc, sender, receiver, subject, html_body, image_data, msgid_seq,
          result, stdout, inv, sheet, http

vars == <<pc, sender, receiver, subject, html_body, image_data, msgid_seq,
          result, stdout, inv, sheet, http>>

(* ----------------------------- bounds --------------------------------- *)
MaxHtmlLen == 4
MaxPayloadLen == 4
MaxMsgid == 1

(* ----------------------------- text ----------------------------------- *)
PLACEHOLDER == <<"{{IMAGE_", "PLACEHOLDER}}">>
IMAGE_MARKER == <<"[Image]">>
FALLBACK_NOTICE == <<"<p><em>[Image could not be loaded]</em></p>">>
NoneValue == [kind |-> "none", val |-> <<>>]

Str(s) == [kind |-> "str", val |-> s]
Bytes(s) == [kind |-> "bytes", val |-> s]

\* Python truthiness of an argument: None, "" and b"" are falsy.
Truthy(v) == v.kind # "none" /\ v.val # <<>>

\* tok occurs in s starting at position i.
MatchAt(s, i, tok) ==
    /\ i + Len(tok) - 1 <= Len(s)
    /\ \A k \in 1..Len(tok) : s[i + k - 1] = tok[k]

\* Python `tok in s` for a non-empty tok.
Contains(s, tok) == \E i \in 1..Len(s) : MatchAt(s, i, tok)

RECURSIVE ReplaceFrom(_, _, _, _)
ReplaceFrom(s, i, old, new) ==
    IF i > Len(s) THEN <<>>
    ELSE IF MatchAt(s, i, old)
         THEN new \o ReplaceFrom(s, i + Len(old), old, new)
         ELSE <<s[i]>> \o ReplaceFrom(s, i + 1, old, new)

\* str.replace(old, new, 1): only the first occurrence is replaced.
StrReplace_FirstOnly(s, old, new) ==
    IF Contains(s, old)
    THEN LET i == CHOOSE k \in 1..Len(s) :
                      MatchAt(s, k, old) /\ \A j \in 1..(k - 1) : ~MatchAt(s, j, old)
         IN  SubSeq(s, 1, i - 1) \o new \o SubSeq(s, i + Len(old), Len(s))
    ELSE s

\* Python str.replace(old, new): one left-to-right pass over the original
\* text; the replacement text and text joined by a removal are not rescanned.
StrReplace(s, old, new) == ReplaceFrom(s, 1, old, new)

\* End of the match of the pattern <[^<]+?> that starts at i (0 if none):
\* the first ">" at i+2 or later with no "<" between.
TagEnd(s, i) ==
    LET ends == {j \in (i + 2)..Len(s) :
                    /\ s[j] = ">"
                    /\ \A k \in (i + 1)..(j - 1) : s[k] # "<"}
    IN  IF s[i] = "<" /\ ends # {}
        THEN CHOOSE j \in ends : \A j2 \in ends : j <= j2
        ELSE 0

RECURSIVE StripTagsFrom(_, _)
StripTagsFrom(s, i) ==
    IF i > Len(s) THEN <<>>
    ELSE IF TagEnd(s, i) # 0
         THEN StripTagsFrom(s, TagEnd(s, i) + 1)
         ELSE <<s[i]>> \o StripTagsFrom(s, i + 1)

\* re.sub('<[^<]+?>', '', s)
StripTags(s) == StripTagsFrom(s, 1)

RECURSIVE CollapseFrom(_, _)
CollapseFrom(s, i) ==
    IF i > Len(s) THEN <<>>
    ELSE IF s[i] = " " /\ i > 1 /\ s[i - 1] = " "
         THEN CollapseFrom(s, i + 1)
         ELSE <<s[i]>> \o CollapseFrom(s, i + 1)

\* The collapse left out: every blank is kept.
CollapseWhitespace_Keep(s) == s

\* re.sub(r'\s+', ' ', s)
CollapseWhitespace(s) == CollapseFrom(s, 1)

\* str.strip() after the collapse: at most one blank at either end.
Strip(s) ==
    LET a == IF Len(s) >= 1 /\ s[1] = " " THEN 2 ELSE 1
        b == IF Len(s) >= a /\ s[Len(s)] = " " THEN Len(s) - 1 ELSE Len(s)
    IN  SubSeq(s, a, b)

\* Lines 51-54: the plain-text alternative.
PlainText(html) ==
    LET stripped == Strip(CollapseWhitespace(StripTags(html)))
    IN  IF Contains(stripped, PLACEHOLDER)
        THEN StrReplace(stripped, PLACEHOLDER, IMAGE_MARKER)
        ELSE stripped

(* --------------------------- image payload ---------------------------- *)
\* Symbols of an image_data string: "a" is any character of the base64
\* alphabet, "=" the pad, "!" an ASCII character outside the alphabet,
\* "U+00E9" a non-ASCII character, "," the data-URI separator.
Base64Alphabet == {"a"}
NonAscii == {"U+00E9"}

RECURSIVE a2b_base64(_, _, _, _, _)
\* binascii.a2b_base64 in its default (non-strict) mode: characters outside
\* the alphabet are skipped; a pad that completes a quad ends the input;
\* an incomplete quad at the end of the input is an error.
a2b_base64(s, i, quad_pos, pads, out) ==
    IF i > Len(s)
    THEN [ok |-> quad_pos = 0, bytes |-> out]
    ELSE IF s[i] = "="
         THEN IF quad_pos >= 2 /\ quad_pos + pads + 1 >= 4
              THEN [ok |-> TRUE, bytes |-> out]
              ELSE a2b_base64(s, i + 1, quad_pos,
                              IF quad_pos >= 2 THEN pads + 1 ELSE pads, out)
         ELSE IF s[i] \notin Base64Alphabet
              THEN a2b_base64(s, i + 1, quad_pos, pads, out)
              ELSE a2b_base64(s, i + 1, (quad_pos + 1) % 4, 0,
                              Append(out, s[i]))

\* base64.b64decode(encoded) for a str argument: a non-ASCII character
\* raises ValueError before any decoding.
b64decode(encoded) ==
    IF \E i \in 1..Len(encoded) : encoded[i] \in NonAscii
    THEN [ok |-> FALSE, bytes |-> <<>>]
    ELSE a2b_base64(encoded, 1, 0, 0, <<>>)

\* Position of the first occurrence of symbol c in s (0 if none).
IndexOf(s, c) ==
    IF \E i \in 1..Len(s) : s[i] = c
    THEN CHOOSE i \in 1..Len(s) : s[i] = c /\ \A k \in 1..(i - 1) : s[k] # c
    ELSE 0

\* s.split(c)[0] and the text after the first c.
Before(s, c) == IF IndexOf(s, c) = 0 THEN s ELSE SubSeq(s, 1, IndexOf(s, c) - 1)
After(s, c) == IF IndexOf(s, c) = 0 THEN <<>> ELSE SubSeq(s, IndexOf(s, c) + 1, Len(s))

Lower(c) ==
    CASE c = "PNG" -> "png"
      [] c = "JPEG" -> "jpeg"
      [] c = "JPG" -> "jpg"
      [] c = "GIF" -> "gif"
      [] c = "GMAIL.COM" -> "gmail.com"
      [] c = "Me" -> "me"
      [] c = "A@X.COM" -> "a@x.com"
      [] c = "Work" -> "work"
      [] c = "Home" -> "home"
      [] OTHER -> c

\* header.split('image/')[1].split(';')[0].lower()
HeaderImgType(header) ==
    LET seg == Before(Before(After(header, "image/"), "image/"), ";")
    IN  [k \in 1..Len(seg) |-> Lower(seg[k])]

\* Lines 69-88 up to the decode: the outcome of the try block.  ok = FALSE
\* stands for an exception raised inside it: TypeError from `"," in
\* image_data` when image_data is bytes, or the decode error.
ProcessImage(image) ==
    IF image.kind = "bytes"
    THEN [ok |-> FALSE, img_type |-> <<>>, image_bytes |-> <<>>]
    ELSE LET hasComma == IndexOf(image.val, ",") # 0
             header   == Before(image.val, ",")
             encoded  == IF hasComma THEN After(image.val, ",") ELSE image.val
             img_type == IF hasComma /\ IndexOf(header, "image/") # 0
                         THEN HeaderImgType(header)
                         ELSE <<"png">>
             dec      == b64decode(encoded)
         IN  [ok |-> dec.ok, img_type |-> img_type, image_bytes |-> dec.bytes]

\* The subtype test that knows 'jpeg' but not 'jpg'.
ImageSubtype_JpegOnly(img_type) ==
    IF img_type = <<"jpeg">> THEN "jpeg"
    ELSE IF img_type = <<"gif">> THEN "gif"
    ELSE "png"

\* Lines 83-88: the subtype handed to MIMEImage.
ImageSubtype(img_type) ==
    IF img_type \in {<<"jpg">>, <<"jpeg">>} THEN "jpeg"
    ELSE IF img_type = <<"gif">> THEN "gif"
    ELSE "png"

(* ------------------------------ message ------------------------------- *)
\* Decimal text of a small natural number.
Digits(n) == IF n < 10 THEN <<ToString(n)>> ELSE <<ToString(n \div 10), ToString(n % 10)>>

\* email.utils.make_msgid(domain='emailserver.local'): "<unique@domain>",
\* unique for every call made by the process.
make_msgid(n) == <<"<">> \o <<"msgid">> \o Digits(n) \o <<"@emailserver.local">> \o <<">">>

\* A constant identifier, as embed_inline_image of fixed_smtp_server.py uses.
ImgCid_Fixed(n) == <<"embedded_image">>

\* make_msgid(...)[1:-1]
ImgCid(n) == SubSeq(make_msgid(n), 2, Len(make_msgid(n)) - 1)

MIMEText(text, subtype) ==
    [maintype |-> "text", subtype |-> subtype, body |-> text,
     headers |-> <<>>, parts |-> <<>>]

\* The image part added as an ordinary attachment.
MIMEImage_Attachment(image_bytes, subtype, img_cid, img_type) ==
    [maintype |-> "image", subtype |-> subtype, body |-> image_bytes,
     headers |-> << <<"Content-ID", <<"<">> \o img_cid \o <<">">> >>,
                    <<"Content-Disposition", <<"attachment">>,
                      <<"image.">> \o img_type>> >>,
     parts |-> <<>>]

\* The image part with its file name built from the content identifier.
MIMEImage_CidFilename(image_bytes, subtype, img_cid, img_type) ==
    [maintype |-> "image", subtype |-> subtype, body |-> image_bytes,
     headers |-> << <<"Content-ID", <<"<">> \o img_cid \o <<">">> >>,
                    <<"Content-Disposition", <<"inline">>,
                      img_cid \o <<".">> \o img_type>> >>,
     parts |-> <<>>]

MIMEImage(image_bytes, subtype, img_cid, img_type) ==
    [maintype |-> "image", subtype |-> subtype, body |-> image_bytes,
     headers |-> << <<"Content-ID", <<"<">> \o img_cid \o <<">">> >>,
                    <<"Content-Disposition", <<"inline">>,
                      <<"image.">> \o img_type>> >>,
     parts |-> <<>>]

MIMEMultipart(subtype, headers, parts) ==
    [maintype |-> "multipart", subtype |-> subtype, body |-> <<>>,
     headers |-> headers, parts |-> parts]

\* The guard without the test for the placeholder.
WantsImage_AnyBody(html, image) == Truthy(image)

\* Line 60: the guard of the image branch.
WantsImage(html, image) == Truthy(image) /\ Contains(html, PLACEHOLDER)

\* The branch whose HTML refers to the image by the bare sequence number.
HtmlBranch_ShortCidRef(html, image, n) ==
    IF WantsImage(html, image)
    THEN LET img == ProcessImage(image)
             img_cid == ImgCid(n)
         IN  IF img.ok
             THEN MIMEMultipart("related", <<>>,
                    << MIMEText(StrReplace(html, PLACEHOLDER, <<"cid:">> \o Digits(n)), "html"),
                       MIMEImage(img.image_bytes, ImageSubtype(img.img_type),
                                 img_cid, img.img_type) >>)
             ELSE MIMEText(StrReplace(html, PLACEHOLDER, FALLBACK_NOTICE), "html")
    ELSE MIMEText(StrReplace(html, PLACEHOLDER, <<>>), "html")

\* The branch that attaches the image before the HTML part.
HtmlBranch_ImageFirst(html, image, n) ==
    IF WantsImage(html, image)
    THEN LET img == ProcessImage(image)
             img_cid == ImgCid(n)
         IN  IF img.ok
             THEN MIMEMultipart("related", <<>>,
                    << MIMEImage(img.image_bytes, ImageSubtype(img.img_type),
                                 img_cid, img.img_type),
                       MIMEText(StrReplace(html, PLACEHOLDER, <<"cid:">> \o img_cid), "html") >>)
             ELSE MIMEText(StrReplace(html, PLACEHOLDER, FALLBACK_NOTICE), "html")
    ELSE MIMEText(StrReplace(html, PLACEHOLDER, <<>>), "html")

\* The branch whose no-image case attaches the body as it came.
HtmlBranch_KeepsPlaceholder(html, image, n) ==
    IF WantsImage(html, image)
    THEN LET img == ProcessImage(image)
             img_cid == ImgCid(n)
         IN  IF img.ok
             THEN MIMEMultipart("related", <<>>,
                    << MIMEText(StrReplace(html, PLACEHOLDER, <<"cid:">> \o img_cid), "html"),
                       MIMEImage(img.image_bytes, ImageSubtype(img.img_type),
                                 img_cid, img.img_type) >>)
             ELSE MIMEText(StrReplace(html, PLACEHOLDER, FALLBACK_NOTICE), "html")
    ELSE MIMEText(html, "html")

\* Lines 59-115: the HTML-bearing branch attached to the alternative.
HtmlBranch(html, image, n) ==
    IF WantsImage(html, image)
    THEN LET img == ProcessImage(image)
             img_cid == ImgCid(n)
         IN  IF img.ok
             THEN MIMEMultipart("related", <<>>,
                    << MIMEText(StrReplace(html, PLACEHOLDER, <<"cid:">> \o img_cid), "html"),
                       MIMEImage(img.image_bytes, ImageSubtype(img.img_type),
                                 img_cid, img.img_type) >>)
             ELSE MIMEText(StrReplace(html, PLACEHOLDER, FALLBACK_NOTICE), "html")
    ELSE MIMEText(StrReplace(html, PLACEHOLDER, <<>>), "html")

\* The headers set from the arguments with surrounding blanks removed.
BuildMessage_StripsHeaders(snd, rcv, subj, html, image, n) ==
    MIMEMultipart("mixed",
        << <<"From", Strip(snd)>>, <<"To", Strip(rcv)>>,
           <<"Subject", Strip(subj)>> >>,
        << MIMEMultipart("alternative", <<>>,
              << MIMEText(PlainText(html), "plain"),
                 HtmlBranch(html, image, n) >>) >>)

\* The HTML-bearing branch attached to the root, beside the alternative,
\* as the earlier fixed_smtp_server.py nests it.
BuildMessage_BranchOnRoot(snd, rcv, subj, html, image, n) ==
    MIMEMultipart("mixed",
        << <<"From", snd>>, <<"To", rcv>>, <<"Subject", subj>> >>,
        << MIMEMultipart("alternative", <<>>,
              << MIMEText(PlainText(html), "plain") >>),
           HtmlBranch(html, image, n) >>)

\* Lines 42-57 and 117-120: the returned message.
BuildMessage(snd, rcv, subj, html, image, n) ==
    MIMEMultipart("mixed",
        << <<"From", snd>>, <<"To", rcv>>, <<"Subject", subj>> >>,
        << MIMEMultipart("alternative", <<>>,
              << MIMEText(PlainText(html), "plain"),
                 HtmlBranch(html, image, n) >>) >>)

\* Line 106: what the except branch prints.
Logged(html, image) ==
    IF WantsImage(html, image) /\ ~ProcessImage(image).ok
    THEN <<"Image processing failed">>
    ELSE <<>>

(* ------------------------------ inputs -------------------------------- *)
HtmlAlphabet == {"{{IMAGE_", "PLACEHOLDER}}", "<", ">", " ", "t"}
PayloadAlphabet == {"a", "=", "!"}

SeqsUpTo(S, n) == UNION {[1..k -> S] : k \in 0..n}

Htmls == SeqsUpTo(HtmlAlphabet, MaxHtmlLen)
Payloads == SeqsUpTo(PayloadAlphabet, MaxPayloadLen)

Headers == { <<"data:", "image/", "png", ";", "base64", ",">>,
             <<"data:", "image/", "JPEG", ";", "base64", ",">>,
             <<"data:", "image/", "gif", ";", "base64", ",">>,
             <<"data:", "image/", "webp", ";", "base64", ",">>,
             <<"data:", "image/", "jpg", ";", "base64", ",">>,
             <<"data:", "image/", "GIF", ",">>,
             <<"data:", "IMAGE/", "jpeg", ";", "base64", ",">>,
             <<"data:", "base64", ",">> }

\* Every image_data value of the model: absent, empty, raw bytes, a bare
\* payload, a payload behind a data-URI header.
Images ==
    {NoneValue, Str(<<>>), Bytes(<<>>), Bytes(<<"PNG-bytes">>)}
      \cup {Str(p) : p \in Payloads}
      \cup {Str(h \o p) : h \in Headers, p \in Payloads}

\* One image_data value of each kind, paired with every body.
CoreImages ==
    { NoneValue, Str(<<>>), Bytes(<<"PNG-bytes">>),
      Str(<<"a", "a", "a", "a">>),
      Str(<<"a", "!">>),
      Str(<<"a", "a", "!", "a", "a">>),
      Str(<<"U+00E9">>),
      Str(<<"data:", "image/", "png", ";", "base64", ",", "a", "a", "=", "=">>),
      Str(<<"data:", "image/", "JPEG", ";", "base64", ",", "a", "a", "=">>) }

\* One body of each kind, paired with every image_data value.
CoreHtmls ==
    { <<>>, <<"t">>,
      <<"<", "t", ">", "t", " ", "{{IMAGE_", "PLACEHOLDER}}", "<", "t", ">">>,
      <<"{{IMAGE_", "PLACEHOLDER}}", "t", "{{IMAGE_", "PLACEHOLDER}}">>,
      <<"{{IMAGE_", "{{IMAGE_", "PLACEHOLDER}}", "PLACEHOLDER}}">>,
      <<"{{IMAGE_", "<", "t", ">", "PLACEHOLDER}}">>,
      <<"<", "p", ">", "Hello", " ", "{{IMAGE_", "PLACEHOLDER}}", "<", "/p", ">">> }

Senders == {<<"me@hotmail.com">>}
Receivers == {<<"you@example.com">>}
Subjects == {<<"Hello">>}

(* --------------------------- state machine ---------------------------- *)
\* The value of a part of the state that a specification does not use.
Idle == [pc |-> "idle"]

\* A request handler is about to call the assembler with its arguments;
\* msgid_seq counts the message ids the process has generated so far.
Init ==
    /\ pc = "call"
    /\ sender \in Senders
    /\ receiver \in Receivers
    /\ subject \in Subjects
    /\ \/ html_body \in Htmls /\ image_data \in CoreImages
       \/ html_body \in CoreHtmls /\ image_data \in Images
    /\ msgid_seq \in 0..MaxMsgid
    /\ result = NoneValue
    /\ stdout = <<>>
    /\ inv = <<>>
    /\ sheet = Idle
    /\ http = Idle

\* def create_email_with_inline_images(sender, receiver, subject,
\*                                     html_body, image_data=None)
create_email_with_inline_images ==
    /\ pc = "call"
    /\ result' = BuildMessage(sender, receiver, subject, html_body,
                              image_data, msgid_seq)
    /\ stdout' = stdout \o Logged(html_body, image_data)
    /\ msgid_seq' = IF WantsImage(html_body, image_data)
                    THEN msgid_seq + 1 ELSE msgid_seq
    /\ pc' = "returned"
    /\ UNCHANGED <<sender, receiver, subject, html_body, image_data>>
    /\ UNCHANGED <<inv, sheet, http>>

Next == create_email_with_inline_images

\* Header arguments as a caller may pass them: plain, padded with blanks,
\* with a display name, several words.
HeaderSenders ==
    { <<"me@hotmail.com">>, <<" ", "me@hotmail.com", " ">>,
      <<"Me", " ", "<", "me@gmail.com", ">">> }
HeaderReceivers ==
    { <<"you@example.com">>, <<"you@example.com", " ">>,
      <<"a@example.com", ",", "b@example.com">> }
HeaderSubjects ==
    { <<"Hello">>, <<" ", "Hello", " ", " ", "there">>, <<"Subject:", " ", "Re">> }

\* The assembler called with every combination of header arguments.
InitHeaders ==
    /\ pc = "call"
    /\ sender \in HeaderSenders
    /\ receiver \in HeaderReceivers
    /\ subject \in HeaderSubjects
    /\ html_body \in CoreHtmls
    /\ image_data \in CoreImages
    /\ msgid_seq = 0
    /\ result = NoneValue
    /\ stdout = <<>>
    /\ inv = <<>>
    /\ sheet = Idle
    /\ http = Idle

SpecHeaders == InitHeaders /\ [][Next]_vars

Spec == Init /\ [][Next]_vars

TypeOK ==
    /\ pc \in {"call", "returned"}
    /\ msgid_seq \in 0..(MaxMsgid + 1)
    /\ pc = "returned" => result.maintype = "multipart"

(* ---------------------- concurrent invocations ----------------------- *)
\* Flask serves each request in its own thread, so invocations of the
\* assembler interleave.  inv[h] holds the arguments and the local
\* variables of the invocation made by request handler h; the message-id
\* generator and stdout are the only things the invocations share.
NumHandlers == 2
Handlers == 1..NumHandlers

ConcHtmls ==
    { <<"t">>,
      <<"t", "{{IMAGE_", "PLACEHOLDER}}">>,
      <<"{{IMAGE_", "PLACEHOLDER}}", "{{IMAGE_", "PLACEHOLDER}}">> }

ConcImages ==
    { NoneValue, Str(<<"a", "a", "a", "a">>), Str(<<"a", "!">>) }

ConcArgs ==
    [sender : Senders, receiver : Receivers, subject : Subjects,
     html_body : ConcHtmls, image_data : ConcImages]

NoLocals == [msg |-> NoneValue, msg_alternative |-> NoneValue, cidnum |-> 0]

InitConcurrent ==
    /\ pc = "idle"
    /\ sender = <<>> /\ receiver = <<>> /\ subject = <<>>
    /\ html_body = <<>> /\ image_data = NoneValue
    /\ msgid_seq = 0
    /\ result = NoneValue
    /\ stdout = <<>>
    /\ inv \in [Handlers -> {[pc |-> "start", args |-> a, locals |-> NoLocals,
                              result |-> NoneValue] : a \in ConcArgs}]
    /\ sheet = Idle
    /\ http = Idle

\* Lines 42-57: the root with its headers, the alternative container and
\* the plain-text part attached to it.
AssembleStart(h) ==
    /\ inv[h].pc = "start"
    /\ inv' = [inv EXCEPT
          ![h].pc = "guard",
          ![h].locals.msg =
              MIMEMultipart("mixed",
                  << <<"From", inv[h].args.sender>>,
                     <<"To", inv[h].args.receiver>>,
                     <<"Subject", inv[h].args.subject>> >>, <<>>),
          ![h].locals.msg_alternative =
              MIMEMultipart("alternative", <<>>,
                  << MIMEText(PlainText(inv[h].args.html_body), "plain") >>)]
    /\ UNCHANGED <<pc, sender, receiver, subject, html_body, image_data,
                   msgid_seq, result, stdout, sheet, http>>

\* Lines 60-65: the guard and, in the image branch, the fresh identifier.
AssembleGuard(h) ==
    /\ inv[h].pc = "guard"
    /\ IF WantsImage(inv[h].args.html_body, inv[h].args.image_data)
       THEN /\ inv' = [inv EXCEPT ![h].pc = "image",
                                  ![h].locals.cidnum = msgid_seq]
            /\ msgid_seq' = msgid_seq + 1
       ELSE /\ inv' = [inv EXCEPT ![h].pc = "noimage"]
            /\ UNCHANGED msgid_seq
    /\ UNCHANGED <<pc, sender, receiver, subject, html_body, image_data,
                   result, stdout, sheet, http>>

\* Lines 67-110 (image branch) and 111-115 (no image): the HTML-bearing
\* branch is attached to the alternative; a failure is printed.
AssembleBranch(h) ==
    /\ inv[h].pc \in {"image", "noimage"}
    /\ inv' = [inv EXCEPT
          ![h].pc = "attach",
          ![h].locals.msg_alternative.parts =
              Append(@, HtmlBranch(inv[h].args.html_body,
                                   inv[h].args.image_data,
                                   inv[h].locals.cidnum))]
    /\ stdout' = stdout \o Logged(inv[h].args.html_body, inv[h].args.image_data)
    /\ UNCHANGED <<pc, sender, receiver, subject, html_body, image_data,
                   msgid_seq, result, sheet, http>>

\* Lines 117-120: the alternative is attached to the root, which is returned.
AssembleReturn(h) ==
    /\ inv[h].pc = "attach"
    /\ inv' = [inv EXCEPT
          ![h].pc = "returned",
          ![h].result = [inv[h].locals.msg EXCEPT
                            !.parts = Append(@, inv[h].locals.msg_alternative)]]
    /\ UNCHANGED <<pc, sender, receiver, subject, html_body, image_data,
                   msgid_seq, result, stdout, sheet, http>>

NextConcurrent ==
    \/ \E h \in Handlers : AssembleStart(h)
    \/ \E h \in Handlers : AssembleGuard(h)
    \/ \E h \in Handlers : AssembleBranch(h)
    \/ \E h \in Handlers : AssembleReturn(h)

SpecConcurrent == InitConcurrent /\ [][NextConcurrent]_vars

(* ------------------------ spreadsheet headers ------------------------- *)
NumCols == 5

\* Column headers as they stand in an uploaded sheet.
ColumnNames ==
    {"to", "EMAIL", " Subject ", "body", "Message", "cc", "BCC", "name", "phone"}

\* c.strip().lower()
StripLower(c) ==
    CASE c = "EMAIL" -> "email"
      [] c = " Subject " -> "subject"
      [] c = "Message" -> "message"
      [] c = "BCC" -> "bcc"
      [] OTHER -> c

\* The alias lists of lines 120-124, in the order of the labels of line 132.
LABELS == <<"to", "subject", "body", "cc", "bcc">>
ALIASES ==
    << <<"to", "email", "recipient", "mailto">>,
       <<"subject", "subj">>,
       <<"body", "message", "msg", "content">>,
       <<"cc">>,
       <<"bcc">> >>

\* Lines 114-118: find(*aliases), <<>> standing for None.  The first alias,
\* in alias order, that is the stripped lower-cased form of some header
\* selects the leftmost column with that form.
Find(cols, aliases) ==
    LET hits == {a \in 1..Len(aliases) :
                    \E i \in 1..Len(cols) : StripLower(cols[i]) = aliases[a]}
    IN  IF hits = {} THEN <<>>
        ELSE LET a == CHOOSE x \in hits : \A y \in hits : x <= y
                 i == CHOOSE x \in 1..Len(cols) :
                         /\ StripLower(cols[x]) = aliases[a]
                         /\ \A y \in 1..(x - 1) : StripLower(cols[y]) # aliases[a]
             IN  <<cols[i]>>

RECURSIVE Concat(_)
Concat(ss) == IF ss = <<>> THEN <<>> ELSE Head(ss) \o Concat(Tail(ss))

\* Lines 126-130: the columns found, in label order with the missing ones
\* dropped, then the leftmost unused columns appended until there are five.
Chosen(cols) ==
    LET found  == Concat([k \in 1..Len(LABELS) |-> Find(cols, ALIASES[k])])
        unused == SelectSeq(cols, LAMBDA c : \A k \in 1..Len(found) : found[k] # c)
        need   == IF Len(found) < 5 THEN 5 - Len(found) ELSE 0
    IN  found \o SubSeq(unused, 1, IF need < Len(unused) THEN need ELSE Len(unused))

\* Lines 132-133: dict(zip(labels, chosen)), as the sequence of the columns
\* of the labels of LABELS (<<>> for a label left out by zip).
NormalizeHeaders(cols) ==
    [k \in 1..Len(LABELS) |->
        IF k <= Len(Chosen(cols)) THEN <<Chosen(cols)[k]>> ELSE <<>>]

Sheets ==
    {c \in [1..NumCols -> ColumnNames] :
        \A i, j \in 1..NumCols : i # j => c[i] # c[j]}

InitSheet ==
    /\ pc = "idle"
    /\ sender = <<>> /\ receiver = <<>> /\ subject = <<>>
    /\ html_body = <<>> /\ image_data = NoneValue
    /\ msgid_seq = 0
    /\ result = NoneValue
    /\ stdout = <<>>
    /\ inv = <<>>
    /\ sheet \in {[pc |-> "call", cols |-> c, mapping |-> <<>>] : c \in Sheets}
    /\ http = Idle

\* def _normalize_headers(cols)
normalize_headers ==
    /\ sheet.pc = "call"
    /\ sheet' = [sheet EXCEPT !.pc = "returned",
                              !.mapping = NormalizeHeaders(sheet.cols)]
    /\ UNCHANGED <<pc, sender, receiver, subject, html_body, image_data,
                   msgid_seq, result, stdout, inv, http>>

NextSheet == normalize_headers

SpecSheet == InitSheet /\ [][NextSheet]_vars

(* ------------------------- the SMTP handlers -------------------------- *)
\* Lines 26-32, in declaration order.
SMTP_CONFIGS ==
    << [key |-> "hotmail.com", server |-> "smtp-mail.outlook.com", port |-> 587,
        tls |-> TRUE, name |-> "Hotmail/Outlook"],
       [key |-> "outlook.com", server |-> "smtp-mail.outlook.com", port |-> 587,
        tls |-> TRUE, name |-> "Hotmail/Outlook"],
       [key |-> "gmail.com", server |-> "smtp.gmail.com", port |-> 587,
        tls |-> TRUE, name |-> "Gmail"],
       [key |-> "yahoo.com", server |-> "smtp.mail.yahoo.com", port |-> 587,
        tls |-> TRUE, name |-> "Yahoo"],
       [key |-> "office365.com", server |-> "smtp.office365.com", port |-> 587,
        tls |-> TRUE, name |-> "Office 365"] >>

\* Lines 214-215: the Gmail handler's fixed server, always with STARTTLS.
GMAIL_CONFIG ==
    [key |-> "gmail.com", server |-> "smtp.gmail.com", port |-> 587,
     tls |-> TRUE, name |-> "Gmail"]

\* A field of the request JSON that is not there.
Missing == [kind |-> "missing", val |-> <<>>]

\* data.get(key, ''): the default only stands in for a key that is absent;
\* an explicit null comes back as None.
Get(v) == IF v.kind = "missing" THEN Str(<<>>) ELSE v

RECURSIVE PyStrip(_)
\* str.strip()
PyStrip(s) ==
    IF s = <<>> THEN s
    ELSE IF Head(s) = " " THEN PyStrip(Tail(s))
    ELSE IF s[Len(s)] = " " THEN PyStrip(SubSeq(s, 1, Len(s) - 1))
    ELSE s

\* str.lower()
LowerText(s) == [k \in 1..Len(s) |-> Lower(s[k])]

\* The names of the five fields each handler strips, in the order of lines
\* 153-157 (SMTP) and 197-201 (Gmail).
StrippedFields(handler) ==
    IF handler = "smtp"
    THEN <<"to", "subject", "body", "email", "password">>
    ELSE <<"email", "password", "to", "subject", "body">>

\* Lines 153-157, 197-201: .strip() on a value that is not a string raises
\* AttributeError.
StripRaises(handler, data) ==
    \E k \in 1..Len(StrippedFields(handler)) :
        Get(data[StrippedFields(handler)[k]]).kind # "str"

\* The all([...]) test that leaves the password out.
RequiredPresent_NoPassword(f) ==
    /\ f.to # <<>> /\ f.subject # <<>> /\ f.body # <<>> /\ f.email # <<>>

\* Lines 160, 204: all([...]) of the five stripped fields.
RequiredPresent(f) ==
    /\ f.to # <<>> /\ f.subject # <<>> /\ f.body # <<>>
    /\ f.email # <<>> /\ f.password # <<>>

\* Line 207: '@gmail.com' in sender_email.lower()
IsGmailAddress(email) == Contains(LowerText(email), <<"@", "gmail.com">>)

\* A lookup of the keys in the whole address instead of its domain.
DomainOf_WholeAddress(email) == LowerText(email)

\* smtp_email.lower().split('@')[-1]
DomainOf(email) ==
    LET l  == LowerText(email)
        at == {i \in 1..Len(l) : l[i] = "@"}
    IN  IF at = {} THEN l
        ELSE SubSeq(l, (CHOOSE i \in at : \A j \in at : j <= i) + 1, Len(l))

\* Lines 164-171: the first configuration, in declaration order, whose key
\* occurs in the domain; office365.com when none does.
SelectConfig(email) ==
    LET hits == {k \in 1..Len(SMTP_CONFIGS) :
                    Contains(DomainOf(email), <<SMTP_CONFIGS[k].key>>)}
    IN  IF hits = {} THEN SMTP_CONFIGS[5]
        ELSE SMTP_CONFIGS[CHOOSE k \in hits : \A j \in hits : k <= j]

\* The order in which a handler would log in and send whatever login gave.
AfterOp_IgnoresLoginFailure(op, outcome, tls) ==
    CASE op = "connect" /\ outcome = "ok" -> IF tls THEN "starttls" ELSE "login"
      [] op = "starttls" /\ outcome = "ok" -> "login"
      [] op = "login" -> "sendmail"
      [] OTHER -> "exit"

\* A handler without the with block: a failed operation goes straight to
\* the except clause and only the end of the block sends QUIT and closes.
AfterOp_NoExitOnFailure(op, outcome, tls) ==
    CASE op = "connect" /\ outcome = "ok" -> IF tls THEN "starttls" ELSE "login"
      [] op = "starttls" /\ outcome = "ok" -> "login"
      [] op = "login" /\ outcome = "ok" -> "sendmail"
      [] op = "sendmail" /\ outcome = "ok" -> "exit"
      [] OTHER -> "respond"

\* Lines 177-181, 214-217: where control goes after an SMTP operation.  A
\* constructor that raises never enters the with block; any other exception,
\* and the end of the block, leave it through __exit__.
AfterOp(op, outcome, tls) ==
    CASE op = "connect" /\ outcome = "ok" -> IF tls THEN "starttls" ELSE "login"
      [] op = "connect" -> "respond"
      [] op = "starttls" /\ outcome = "ok" -> "login"
      [] op = "login" /\ outcome = "ok" -> "sendmail"
      [] OTHER -> "exit"

\* Lines 183-187, 219-223: the response for the exception that left the try
\* block ("ok" when none did).
ResponseFor(raised) ==
    CASE raised = "ok" -> [code |-> 200, success |-> TRUE]
      [] raised = "auth" -> [code |-> 401, success |-> FALSE]
      [] OTHER -> [code |-> 500, success |-> FALSE]

BadRequest == [code |-> 400, success |-> FALSE]

\* What an SMTP operation can do: return, raise SMTPAuthenticationError
\* (login only), raise anything else.
Outcomes(op) == IF op = "login" THEN {"ok", "auth", "error"} ELSE {"ok", "error"}

SenderEmails ==
    { <<>>, <<" ">>,
      <<"me", "@", "hotmail.com">>,
      <<"me", "@", "GMAIL.COM">>,
      <<" ", "me", "@", "gmail.com", " ">>,
      <<"me", "@", "gmail.com", ".evil.org">>,
      <<"me", "@", "corp.example">>,
      <<"outlook.com", "@", "yahoo.com">>,
      <<"me", "@", "outlook.com">>,
      <<"me", "@", "office365.com">>,
      <<"me", "@", "gmail.com", ".", "hotmail.com">>,
      <<"me">> }

RequestData ==
    [to : {Missing, NoneValue, Str(<<" ">>), Str(<<"you@example.com", " ">>)},
     subject : {Missing, Str(<<"Hi">>)},
     body : {Str(<<" ">>), Str(<<" ", "t", "{{IMAGE_", "PLACEHOLDER}}">>)},
     email : {Str(e) : e \in SenderEmails},
     password : {Str(<<>>), NoneValue, Str(<<"pw">>)},
     imageData : {Missing, Str(<<"a", "a", "a", "a">>), Str(<<"a", "!">>)}]

NoFields == [to |-> <<>>, subject |-> <<>>, body |-> <<>>, email |-> <<>>,
             password |-> <<>>]

InitHandlers ==
    /\ pc = "idle"
    /\ sender = <<>> /\ receiver = <<>> /\ subject = <<>>
    /\ html_body = <<>> /\ image_data = NoneValue
    /\ msgid_seq = 0
    /\ result = NoneValue
    /\ stdout = <<>>
    /\ inv = <<>>
    /\ sheet = Idle
    /\ http \in {[pc |-> "request", handler |-> h, data |-> d,
                  fields |-> NoFields, smtp_config |-> GMAIL_CONFIG,
                  conn |-> "none", raised |-> "ok", ops |-> <<>>,
                  response |-> NoneValue] :
                    h \in {"smtp", "gmail"}, d \in RequestData}

Unused == <<pc, inv, sheet>>
AssemblerVars == <<sender, receiver, subject, html_body, image_data,
                   msgid_seq, result, stdout>>

\* Lines 151-161 and 195-208: the fields are read and stripped, then
\* validated; a failure answers at once.
HandlerValidate ==
    /\ http.pc = "request"
    /\ IF StripRaises(http.handler, http.data)
       THEN http' = [http EXCEPT !.pc = "responded", !.raised = "error",
                                 !.response = ResponseFor("error")]
       ELSE LET f == [k \in DOMAIN NoFields |-> PyStrip(Get(http.data[k]).val)]
            IN  IF  \/ ~RequiredPresent(f)
                    \/ http.handler = "gmail" /\ ~IsGmailAddress(f.email)
                THEN http' = [http EXCEPT !.pc = "responded", !.fields = f,
                                          !.response = BadRequest]
                ELSE http' = [http EXCEPT !.pc = "assemble", !.fields = f]
    /\ UNCHANGED Unused
    /\ UNCHANGED AssemblerVars

\* Lines 163-174 and 210-211: the configuration is chosen and the message
\* assembled.
HandlerAssemble ==
    /\ http.pc = "assemble"
    /\ sender' = http.fields.email
    /\ receiver' = http.fields.to
    /\ subject' = http.fields.subject
    /\ html_body' = http.fields.body
    /\ image_data' = IF http.data.imageData.kind = "missing" THEN NoneValue
                     ELSE http.data.imageData
    /\ result' = BuildMessage(sender', receiver', subject', html_body',
                              image_data', msgid_seq)
    /\ stdout' = stdout \o Logged(html_body', image_data')
    /\ msgid_seq' = IF WantsImage(html_body', image_data')
                    THEN msgid_seq + 1 ELSE msgid_seq
    /\ http' = [http EXCEPT
          !.pc = "connect",
          !.smtp_config = IF http.handler = "smtp"
                          THEN SelectConfig(http.fields.email)
                          ELSE GMAIL_CONFIG,
          !.ops = Append(@, <<"assemble", "ok">>)]
    /\ UNCHANGED Unused

\* One SMTP operation of the with block, with the outcome the server and
\* the network give it.
SmtpOp(op) ==
    /\ http.pc = op
    /\ \E outcome \in Outcomes(op) :
          http' = [http EXCEPT
              !.pc = AfterOp(op, outcome, http.smtp_config.tls),
              !.raised = outcome,
              !.conn = IF op = "connect" /\ outcome = "ok" THEN "open" ELSE @,
              !.ops = Append(@, <<op, outcome>>)]
    /\ UNCHANGED Unused
    /\ UNCHANGED AssemblerVars

\* smtplib.SMTP(server, port, timeout=30)
SmtpConnect == SmtpOp("connect")
\* server.starttls()
SmtpStarttls == SmtpOp("starttls")
\* server.login(email, password)
SmtpLogin == SmtpOp("login")
\* server.sendmail(email, [receiver], msg.as_string())
SmtpSendmail == SmtpOp("sendmail")

\* SMTP.__exit__: QUIT is sent and the socket closed; a reply other than
\* 221 raises SMTPResponseException in place of whatever was being raised.
SmtpExit ==
    /\ http.pc = "exit"
    /\ \E outcome \in {"ok", "error"} :
          http' = [http EXCEPT
              !.pc = "respond",
              !.raised = IF outcome = "ok" THEN @ ELSE "error",
              !.conn = "closed",
              !.ops = Append(@, <<"quit", outcome>>)]
    /\ UNCHANGED Unused
    /\ UNCHANGED AssemblerVars

\* Lines 183-187 and 219-223: the one response of the request.
HandlerRespond ==
    /\ http.pc = "respond"
    /\ http' = [http EXCEPT !.pc = "responded",
                            !.response = ResponseFor(http.raised)]
    /\ UNCHANGED Unused
    /\ UNCHANGED AssemblerVars

NextHandlers ==
    \/ HandlerValidate
    \/ HandlerAssemble
    \/ SmtpConnect
    \/ SmtpStarttls
    \/ SmtpLogin
    \/ SmtpSendmail
    \/ SmtpExit
    \/ HandlerRespond

SpecHandlers == InitHandlers /\ [][NextHandlers]_vars

(* ----------- local_email_server.py: the Outlook handlers --------------- *)
MaxAccounts == 2

\* An account as Outlook's COM interface shows it: its display name, its
\* SmtpAddress ("" when it has none or the property cannot be read) and
\* whether accounts.Item(i) and its properties can be read at all.
ComAccounts ==
    {[display |-> d, smtp |-> s, readable |-> TRUE] :
        d \in {"Work", "Home"}, s \in {"", "a@x.com", "A@X.COM"}}
      \cup {[display |-> "", smtp |-> "", readable |-> FALSE]}

ComAccountSeqs == UNION {[1..n -> ComAccounts] : n \in 0..MaxAccounts}

\* Lines 12-36: the account's own address, else the current user's, else
\* the display name.
safe_get_smtp(account, current_user) ==
    IF account.smtp # "" THEN account.smtp
    ELSE IF current_user # "" THEN current_user
    ELSE account.display

RECURSIVE AccountInfos(_, _, _)
\* Lines 174-190: one entry per account that can be read, in COM order,
\* none of them marked; an account that cannot be read is skipped.
AccountInfos(accounts, i, current_user) ==
    IF i > Len(accounts) THEN <<>>
    ELSE LET a == accounts[i]
             smtp == safe_get_smtp(a, current_user)
         IN  (IF a.readable
              THEN <<[index |-> i, displayName |-> a.display,
                      smtpAddress |-> IF smtp # "" THEN smtp ELSE a.display,
                      isDefault |-> FALSE]>>
              ELSE <<>>)
               \o AccountInfos(accounts, i + 1, current_user)

\* The entry a loop with a break stops at.
FirstOf(S) == IF S = {} THEN {} ELSE {CHOOSE k \in S : \A j \in S : k <= j}
LastOf(S) == CHOOSE k \in S : \A j \in S : j <= k

\* The loop of method 1 without its break.
StoreMatches_NoBreak(list, store) ==
    IF store = "raise" THEN {}
    ELSE {k \in 1..Len(list) : list[k].displayName = store}

\* Lines 193-202, method 1: the first entry whose display name is the
\* default store's; reading the store may raise, which is swallowed.
StoreMatches(list, store) ==
    IF store = "raise" THEN {}
    ELSE FirstOf({k \in 1..Len(list) : list[k].displayName = store})

\* Lines 205-218, method 2: the first entry whose address is, in lower
\* case, that of the sending account of a new mail item; CreateItem may
\* raise and the item may have no sending account.
SendingMatches(list, sending, current_user) ==
    IF sending.kind # "account" THEN {}
    ELSE FirstOf({k \in 1..Len(list) :
                    Lower(list[k].smtpAddress)
                      = Lower(safe_get_smtp(sending.account, current_user))})

\* Lines 193-223: the entries marked, by the first method that finds one.
MarkedAccounts(list, env) ==
    LET m1 == StoreMatches(list, env.store)
        m2 == SendingMatches(list, env.sending, env.current_user)
    IN  IF m1 # {} THEN m1
        ELSE IF m2 # {} THEN m2
        ELSE IF list # <<>> THEN {1}
        ELSE {}

\* Lines 161-240: the JSON of get_accounts.
GetAccounts(env) ==
    IF env.dispatch = "raise"
    THEN [success |-> FALSE, accounts |-> <<>>, defaultAccount |-> NoneValue,
          totalAccounts |-> 0]
    ELSE LET list == AccountInfos(env.accounts, 1, env.current_user)
             marked == MarkedAccounts(list, env)
             final == [k \in 1..Len(list) |->
                          [list[k] EXCEPT !.isDefault = (k \in marked)]]
         IN  [success |-> TRUE, accounts |-> final,
              defaultAccount |-> IF marked = {} THEN NoneValue
                                 ELSE final[LastOf(marked)],
              totalAccounts |-> Len(final)]

RECURSIVE HealthAccounts(_, _)
\* Lines 92-105: the accounts health_check can read, with the address as
\* Outlook gives it.
HealthAccounts(accounts, i) ==
    IF i > Len(accounts) THEN <<>>
    ELSE (IF accounts[i].readable
          THEN <<[index |-> i, displayName |-> accounts[i].display,
                  smtpAddress |-> accounts[i].smtp, isDefault |-> FALSE]>>
          ELSE <<>>)
           \o HealthAccounts(accounts, i + 1)

\* Lines 110-119: the first entry named like the default store; the first
\* entry when reading the store raises.
HealthMarked(list, store) ==
    IF store = "raise" THEN (IF list # <<>> THEN {1} ELSE {})
    ELSE FirstOf({k \in 1..Len(list) : list[k].displayName = store})

\* Lines 84-126, step 3: whether accounts are configured, the accounts
\* collected and the error the step leaves.
HealthStep3(env) ==
    IF env.namespace3 = "raise"
    THEN [configured |-> FALSE, accounts |-> <<>>,
          error |-> Str(<<"Outlook configuration error">>)]
    ELSE IF Len(env.accounts) > 0
    THEN LET list == HealthAccounts(env.accounts, 1)
         IN  [configured |-> TRUE,
              accounts |-> [k \in 1..Len(list) |->
                  [list[k] EXCEPT
                      !.isDefault = (k \in HealthMarked(list, env.store))]],
              error |-> NoneValue]
    ELSE [configured |-> FALSE, accounts |-> <<>>,
          error |-> Str(<<"No email accounts found in Outlook">>)]

\* Lines 51-156: the JSON of health_check.
HealthCheck(env) ==
    IF env.dispatch = "raise"
    THEN [status |-> "error", message |-> NoneValue,
          outlook_available |-> FALSE, outlook_running |-> FALSE,
          outlook_configured |-> FALSE,
          error |-> Str(<<"Outlook COM Error">>), accounts |-> <<>>]
    ELSE LET step3 == HealthStep3(env)
             error == IF env.create_item = "raise"
                      THEN Str(<<"Mail creation error">>)
                      ELSE step3.error
         IN  [status |-> IF step3.configured THEN "healthy" ELSE "partial",
              message |-> IF step3.configured
                          THEN Str(<<"Outlook is ready for sending emails">>)
                          ELSE Str(<<"Outlook available but may need configuration">>),
              outlook_available |-> TRUE,
              outlook_running |-> (env.namespace2 = "ok"),
              outlook_configured |-> step3.configured,
              error |-> error, accounts |-> step3.accounts]

NoAccount == [display |-> "", smtp |-> "", readable |-> FALSE]

\* What a new mail item's SendUsingAccount gives: CreateItem raises, the
\* item has no sending account, or it has one.
Sendings ==
    {[kind |-> "raise", account |-> NoAccount],
     [kind |-> "none", account |-> NoAccount],
     [kind |-> "account",
      account |-> [display |-> "Work", smtp |-> "a@x.com", readable |-> TRUE]],
     [kind |-> "account",
      account |-> [display |-> "Home", smtp |-> "", readable |-> TRUE]]}

\* The display name of the default store, or the exception reading it.
Stores == {"raise", "", "Work", "Other"}

NoOutlook ==
    [dispatch |-> "raise", namespace2 |-> "ok", namespace3 |-> "ok",
     accounts |-> <<>>, store |-> "raise", sending |-> CHOOSE s \in Sendings : s.kind = "raise",
     current_user |-> "", create_item |-> "ok"]

\* The states of Outlook get_accounts can meet.
AccountsEnvs ==
    {NoOutlook} \cup
    [dispatch : {"ok"}, namespace2 : {"ok"}, namespace3 : {"ok"},
     accounts : ComAccountSeqs, store : Stores, sending : Sendings,
     current_user : {"", "a@x.com"}, create_item : {"ok"}]

\* The states of Outlook health_check can meet.
HealthEnvs ==
    {NoOutlook} \cup
    [dispatch : {"ok"}, namespace2 : {"ok", "raise"},
     namespace3 : {"ok", "raise"},
     accounts : ComAccountSeqs, store : Stores,
     sending : {CHOOSE s \in Sendings : s.kind = "none"},
     current_user : {""}, create_item : {"ok", "raise"}]

(* ------------- send_outlook_email, in both servers --------------------- *)
\* "local" is send_outlook_email of local_email_server.py, "improved" the
\* one of fixed_smtp_server_improved.py.
CID_LOCAL == <<"cid:MyId1">>
CID_IMPROVED == <<"cid:OutlookImg1">>
IMAGE_NOT_LOADED == <<"<", "p", ">", "[Image could not be loaded]", "<", "/p", ">">>

\* data.get(key) with no default: an absent key reads as None.
GetOrNone(v) == IF v.kind = "missing" THEN NoneValue ELSE v

\* local_email_server.py line 258: all([receiver, subject, html_body])
LocalRequiredPresent(data) ==
    /\ Truthy(GetOrNone(data.to))
    /\ Truthy(GetOrNone(data.subject))
    /\ Truthy(GetOrNone(data.body))

\* fixed_smtp_server_improved.py lines 236-238: .strip() of a value that is
\* not a string raises AttributeError.
OutlookStripRaises(data) ==
    \E k \in {"to", "subject", "body"} : Get(data[k]).kind # "str"

\* fixed_smtp_server_improved.py line 241: all([receiver, subject, html_body])
ImprovedRequiredPresent(data) ==
    \A k \in {"to", "subject", "body"} : PyStrip(Get(data[k]).val) # <<>>

\* local_email_server.py lines 304-309: the split at the comma, the decode
\* and the two splits of the header all succeed.
LocalImageParses(image) ==
    /\ image.kind = "str"
    /\ IndexOf(image.val, ",") # 0
    /\ b64decode(After(image.val, ",")).ok
    /\ LET header == Before(image.val, ",")
       IN  /\ IndexOf(header, "data:") # 0
           /\ IndexOf(Before(After(header, "data:"), ";"), "image/") # 0

\* fixed_smtp_server_improved.py lines 255-259: the decode succeeds.
ImprovedImageParses(image) ==
    /\ image.kind = "str"
    /\ b64decode(IF IndexOf(image.val, ",") # 0
                 THEN After(image.val, ",") ELSE image.val).ok

\* Where the try block of the image can fail once the data is decoded:
\* creating the temporary file, writing it, Attachments.Add, SetProperty.
ImageFailures == {"none", "tempfile", "write", "add", "setprop"}

\* local_email_server.py lines 302-327 and fixed_smtp_server_improved.py
\* lines 254-273: the try block of the image.  NamedTemporaryFile is made
\* with delete=False, so the file stays once it exists; only the improved
\* server unlinks it inside the block, as its last statement.
ImageTry(handler, parses, fail, unlinked) ==
    IF ~parses \/ fail = "tempfile"
    THEN [raised |-> TRUE, file |-> 0, attached |-> FALSE]
    ELSE IF fail # "none"
    THEN [raised |-> TRUE, file |-> 1, attached |-> (fail = "setprop")]
    ELSE [raised |-> FALSE,
          file |-> IF handler = "improved" /\ unlinked THEN 0 ELSE 1,
          attached |-> TRUE]

\* A handler that sends the mail without the image when the image fails.
AfterImage_SendsAnyway(handler, raised) == "send"

\* local_email_server.py lines 326-327: an image failure answers 400 at
\* once; fixed_smtp_server_improved.py lines 271-273: it is printed and the
\* mail goes out with a notice.
AfterImage(handler, raised) ==
    IF handler = "local" /\ raised THEN "responded" ELSE "send"

\* The body after the image step.
BodyAfterImage(handler, html, tried, raised) ==
    IF handler = "local"
    THEN IF tried /\ ~raised THEN StrReplace(html, PLACEHOLDER, CID_LOCAL)
         ELSE html
    ELSE IF ~tried THEN StrReplace(html, PLACEHOLDER, <<>>)
    ELSE IF raised THEN StrReplace(html, PLACEHOLDER, IMAGE_NOT_LOADED)
    ELSE StrReplace(html, PLACEHOLDER, CID_IMPROVED)

\* local_email_server.py line 301 and fixed_smtp_server_improved.py line
\* 254: whether the handler enters the try block of the image.
TriesImage(handler, html, image) ==
    IF handler = "local" THEN Truthy(image)
    ELSE Truthy(image) /\ Contains(html, PLACEHOLDER)

OutlookResponse(code, error) ==
    [code |-> code, success |-> (code = 200), error |-> error]

NoMail == [to |-> <<>>, cc |-> <<>>, bcc |-> <<>>, subject |-> <<>>,
           html |-> <<>>, attached |-> FALSE, account |-> "default"]

OutlookRequests ==
    [to : {Missing, NoneValue, Str(<<>>), Str(<<"you@example.com">>)},
     subject : {Missing, Str(<<"Hi">>)},
     body : {Str(<<" ">>), Str(<<"t">>), Str(<<"t", "{{IMAGE_", "PLACEHOLDER}}">>)},
     cc : {Missing, Str(<<"c@example.com">>)},
     bcc : {Missing},
     fromAccount : {Missing, Str(<<"Work">>)},
     imageData : {Missing,
                  Str(<<"a", "a", "a", "a">>),
                  Str(<<"data:", "image/", "png", ";", "base64", ",", "a", "a", "=", "=">>),
                  Str(<<"data:", "image/", "png", ";", "base64", ",", "a", "a", "a">>)}]

NoRequest ==
    [to |-> Missing, subject |-> Missing, body |-> Missing, cc |-> Missing,
     bcc |-> Missing, fromAccount |-> Missing, imageData |-> Missing]

OutlookStart(h, d, e) ==
    [pc |-> "request", handler |-> h, data |-> d, env |-> e,
     mail |-> NoMail, files |-> 0, sends |-> 0, ops |-> <<>>,
     response |-> NoneValue]

InitOutlook ==
    /\ pc = "idle"
    /\ sender = <<>> /\ receiver = <<>> /\ subject = <<>>
    /\ html_body = <<>> /\ image_data = NoneValue
    /\ msgid_seq = 0
    /\ result = NoneValue
    /\ stdout = <<>>
    /\ inv = <<>>
    /\ sheet = Idle
    /\ http \in {OutlookStart("accounts", NoRequest, e) : e \in AccountsEnvs}
          \cup {OutlookStart("health", NoRequest, e) : e \in HealthEnvs}
          \cup {OutlookStart("local", d, [outlook_available |-> TRUE]) :
                    d \in OutlookRequests}
          \cup {OutlookStart("improved", d, [outlook_available |-> a]) :
                    d \in {r \in OutlookRequests :
                              r.cc = Missing /\ r.fromAccount = Missing},
                    a \in BOOLEAN}

NotHttp == <<pc, sender, receiver, subject, html_body, image_data,
             msgid_seq, result, stdout, inv, sheet>>

\* local_email_server.py lines 158-240
get_accounts ==
    /\ http.pc = "request" /\ http.handler = "accounts"
    /\ http' = [http EXCEPT !.pc = "responded",
                            !.response = GetAccounts(http.env)]
    /\ UNCHANGED NotHttp

\* local_email_server.py lines 48-156
health_check ==
    /\ http.pc = "request" /\ http.handler = "health"
    /\ http' = [http EXCEPT !.pc = "responded",
                            !.response = HealthCheck(http.env)]
    /\ UNCHANGED NotHttp

\* local_email_server.py lines 246-259 and fixed_smtp_server_improved.py
\* lines 231-242: the request is read and validated.
OutlookValidate ==
    /\ http.pc = "request" /\ http.handler \in {"local", "improved"}
    /\ LET d == http.data
           answer(code, error) ==
               [http EXCEPT !.pc = "responded",
                            !.response = OutlookResponse(code, error)]
       IN  http' =
             IF http.handler = "local"
             THEN IF LocalRequiredPresent(d)
                  THEN [http EXCEPT !.pc = "create"]
                  ELSE answer(400, "Missing required fields")
             ELSE IF ~http.env.outlook_available
                  THEN answer(400, "Outlook not available on this system")
             ELSE IF OutlookStripRaises(d)
                  THEN answer(500, "Outlook send failed")
             ELSE IF ImprovedRequiredPresent(d)
                  THEN [http EXCEPT !.pc = "create"]
                  ELSE answer(400, "Missing required fields")
    /\ UNCHANGED NotHttp

\* The text a handler works with: stripped by the improved server, as sent
\* for the local one.
FieldOf(handler, v) ==
    IF handler = "improved" THEN PyStrip(Get(v).val) ELSE GetOrNone(v).val

\* local_email_server.py lines 262-297 and fixed_smtp_server_improved.py
\* lines 244-247: Dispatch, CreateItem, the optional choice of the sending
\* account (its own errors are swallowed) and the header properties; a COM
\* error of any other call leaves through the outer except clause.
OutlookCreate ==
    /\ http.pc = "create"
    /\ \E outcome \in {"ok", "error"}, account \in {"set", "unset"} :
          LET d == http.data
              h == http.handler
              preferred == h = "local" /\ Truthy(GetOrNone(d.fromAccount))
          IN  /\ ~preferred => account = "unset"
              /\ http' =
                   IF outcome = "error"
                   THEN [http EXCEPT
                           !.pc = "responded",
                           !.ops = Append(@, <<"create", "error">>),
                           !.response = OutlookResponse(500,
                               IF h = "local" THEN "Failed to send email"
                               ELSE "Outlook send failed")]
                   ELSE [http EXCEPT
                           !.pc = "image",
                           !.ops = Append(@, <<"create", "ok">>),
                           !.mail = [NoMail EXCEPT
                               !.to = FieldOf(h, d.to),
                               !.subject = FieldOf(h, d.subject),
                               !.cc = IF h = "local" THEN Get(d.cc).val ELSE <<>>,
                               !.bcc = IF h = "local" THEN Get(d.bcc).val ELSE <<>>,
                               !.account = IF account = "set"
                                           THEN "preferred" ELSE "default"]]
    /\ UNCHANGED NotHttp

\* local_email_server.py lines 300-327 and fixed_smtp_server_improved.py
\* lines 249-275: the inline image.
OutlookImage ==
    /\ http.pc = "image"
    /\ \E fail \in ImageFailures, unlinked \in BOOLEAN :
          LET h == http.handler
              html == FieldOf(h, http.data.body)
              image == GetOrNone(http.data.imageData)
              tried == TriesImage(h, html, image)
              parses == IF h = "local" THEN LocalImageParses(image)
                        ELSE ImprovedImageParses(image)
              try == IF tried THEN ImageTry(h, parses, fail, unlinked)
                     ELSE [raised |-> FALSE, file |-> 0, attached |-> FALSE]
              next == AfterImage(h, try.raised)
          IN  /\ (~tried \/ ~parses) => fail = "none"
              /\ (h = "local" \/ ~tried \/ ~parses \/ fail # "none") => unlinked
              /\ http' = [http EXCEPT
                    !.pc = next,
                    !.files = try.file,
                    !.mail.attached = try.attached,
                    !.mail.html = IF next = "send"
                                  THEN BodyAfterImage(h, html, tried, try.raised)
                                  ELSE @,
                    !.ops = IF tried
                            THEN Append(@, <<"image", IF try.raised THEN "error" ELSE "ok">>)
                            ELSE @,
                    !.response = IF next = "responded"
                                 THEN OutlookResponse(400, "Image processing error")
                                 ELSE @]
    /\ UNCHANGED NotHttp

\* local_email_server.py lines 330-333 and fixed_smtp_server_improved.py
\* lines 277-278: the body is set and the mail sent; either may raise.
OutlookSend ==
    /\ http.pc = "send"
    /\ \E outcome \in {"ok", "body_error", "send_error"} :
          LET h == http.handler
              called == IF outcome = "body_error" THEN 0 ELSE 1
          IN  http' = [http EXCEPT
                  !.pc = IF outcome = "ok" /\ h = "local" THEN "cleanup"
                         ELSE "responded",
                  !.sends = @ + called,
                  !.ops = Append(@, <<"send", outcome>>),
                  !.response =
                      IF outcome # "ok"
                      THEN OutlookResponse(500,
                               IF h = "local" THEN "Failed to send email"
                               ELSE "Outlook send failed")
                      ELSE IF h = "local" THEN @
                      ELSE OutlookResponse(200, "")]
    /\ UNCHANGED NotHttp

\* local_email_server.py lines 336-346: the temporary file is unlinked, a
\* failure to do so is passed over, and the success is answered.
OutlookCleanup ==
    /\ http.pc = "cleanup"
    /\ \E unlinked \in BOOLEAN :
          /\ http.files = 0 => unlinked
          /\ http' = [http EXCEPT
                !.pc = "responded",
                !.files = IF unlinked THEN 0 ELSE @,
                !.response = OutlookResponse(200, "")]
    /\ UNCHANGED NotHttp

NextOutlook ==
    \/ get_accounts
    \/ health_check
    \/ OutlookValidate
    \/ OutlookCreate
    \/ OutlookImage
    \/ OutlookSend
    \/ OutlookCleanup

SpecOutlook == InitOutlook /\ [][NextOutlook]_vars

(* ------------------------ app_1.py: the deeplink ----------------------- *)
MaxValueLen == 3

\* Symbols of a field value: "a" and "bcc" are runs of letters, the others
\* single characters.
QueryAlphabet == {"a", "bcc", " ", "&", "=", "#", "?", "+"}
FieldValues == UNION {[1..n -> QueryAlphabet] : n \in 0..MaxValueLen}

\* Line 142: the safe argument handed to quote.
SAFE == {"@", ".", "_", "-", ":", "/", "?", "=", "#", "&", "\n", " "}

\* What quote never encodes: letters, digits and "_.-~".
AlwaysSafe == {"a", "bcc", "5", "_", ".", "-", "~"}

\* The percent-encoding of a character.
PercentEncoded(c) ==
    CASE c = " " -> "%20"
      [] c = "&" -> "%26"
      [] c = "=" -> "%3D"
      [] c = "#" -> "%23"
      [] c = "?" -> "%3F"
      [] c = "+" -> "%2B"
      [] OTHER -> c

\* urllib.parse.quote(value, safe=SAFE), character by character.
Quote(c) == IF c \in AlwaysSafe \cup SAFE THEN c ELSE PercentEncoded(c)

NaN == [kind |-> "nan", val |-> <<>>]
Num(s) == [kind |-> "num", val |-> s]

\* Lines 136-142
EncodeForQuery(value) ==
    IF value.kind \in {"none", "nan"} THEN <<>>
    ELSE [k \in 1..Len(value.val) |-> Quote(value.val[k])]

BASE == <<"https://outlook.office.com/mail/deeplink/compose">>

\* Lines 163-171: the parameters, cc and bcc only when they are not empty.
QueryList(row) ==
    << [k |-> "to", v |-> row.to], [k |-> "subject", v |-> row.subject],
       [k |-> "body", v |-> row.body] >>
      \o (IF row.cc # <<>> THEN <<[k |-> "cc", v |-> row.cc]>> ELSE <<>>)
      \o (IF row.bcc # <<>> THEN <<[k |-> "bcc", v |-> row.bcc]>> ELSE <<>>)

RECURSIVE JoinParams(_)
\* Line 173: "&".join(f"{k}={_encode_for_query(v)}" ...)
JoinParams(q) ==
    IF q = <<>> THEN <<>>
    ELSE <<q[1].k, "=">> \o EncodeForQuery(Str(q[1].v))
           \o (IF Len(q) > 1 THEN <<"&">> \o JoinParams(Tail(q)) ELSE <<>>)

\* Lines 157-174
ComposeDeeplink(row) == BASE \o <<"?">> \o JoinParams(QueryList(row))

CoreRow == [to |-> <<"a">>, subject |-> <<"a", " ", "a">>, body |-> <<"a">>,
            cc |-> <<>>, bcc |-> <<>>]

\* The rows of the sheet: every value in each field in turn, and every
\* combination of empty and filled fields.
Rows ==
    {[CoreRow EXCEPT ![f] = v] : f \in DOMAIN CoreRow, v \in FieldValues}
      \cup [to : {<<>>, <<"a">>}, subject : {<<>>, <<"a">>},
            body : {<<>>, <<"a">>}, cc : {<<>>, <<"a">>}, bcc : {<<>>, <<"a">>}]

\* The values _encode_for_query is given: a missing cell, a number, text.
CellValues == {NoneValue, NaN, Num(<<"5">>)} \cup {Str(v) : v \in FieldValues}

InitDeeplink ==
    /\ pc = "idle"
    /\ sender = <<>> /\ receiver = <<>> /\ subject = <<>>
    /\ html_body = <<>> /\ image_data = NoneValue
    /\ msgid_seq = 0
    /\ result = NoneValue
    /\ stdout = <<>>
    /\ inv = <<>>
    /\ http = Idle
    /\ sheet \in {[pc |-> "call", fn |-> "encode", value |-> v,
                   row |-> CoreRow, out |-> <<>>] : v \in CellValues}
           \cup {[pc |-> "call", fn |-> "compose", value |-> NoneValue,
                   row |-> r, out |-> <<>>] : r \in Rows}

NotSheet == <<pc, sender, receiver, subject, html_body, image_data,
              msgid_seq, result, stdout, inv, http>>

\* Lines 136-142
encode_for_query ==
    /\ sheet.pc = "call" /\ sheet.fn = "encode"
    /\ sheet' = [sheet EXCEPT !.pc = "returned",
                              !.out = EncodeForQuery(sheet.value)]
    /\ UNCHANGED NotSheet

\* Lines 157-174
compose_deeplink ==
    /\ sheet.pc = "call" /\ sheet.fn = "compose"
    /\ sheet' = [sheet EXCEPT !.pc = "returned",
                              !.out = ComposeDeeplink(sheet.row)]
    /\ UNCHANGED NotSheet

NextDeeplink ==
    \/ encode_for_query
    \/ compose_deeplink

SpecDeeplink == InitDeeplink /\ [][NextDeeplink]_vars

(* ------------------- reading the returned message --------------------- *)
Returned == pc = "returned"
Alternative == result.parts[1]
TextPart == Alternative.parts[1]
Branch == Alternative.parts[2]

IsLeaf(p, maintype, subtype) ==
    p.maintype = maintype /\ p.subtype = subtype /\ p.parts = <<>>

\* All the places of the parts of a message, as paths of child indexes
\* (the tree the assembler builds is at most three levels deep).
Paths(m) ==
    {<<>>}
      \cup {<<i>> : i \in 1..Len(m.parts)}
      \cup {<<i, j>> : i \in 1..Len(m.parts), j \in 1..2}
      \cup {<<i, j, k>> : i \in 1..Len(m.parts), j \in 1..2, k \in 1..2}

RECURSIVE PartAt(_, _)
PartAt(m, path) ==
    IF path = <<>> THEN m
    ELSE IF path[1] > Len(m.parts) THEN NoneValue
    ELSE PartAt(m.parts[path[1]], Tail(path))

PartPaths(m) == {q \in Paths(m) : PartAt(m, q) # NoneValue}
TextPaths(m) == {q \in PartPaths(m) : PartAt(m, q).maintype = "text"}
ImagePaths(m) == {q \in PartPaths(m) : PartAt(m, q).maintype = "image"}
RelatedPaths(m) == {q \in PartPaths(m) : PartAt(m, q).subtype = "related"}
PlainPaths(m) == {q \in TextPaths(m) : PartAt(m, q).subtype = "plain"}
HtmlPaths(m) == {q \in TextPaths(m) : PartAt(m, q).subtype = "html"}

\* The one HTML part of the returned message.
HtmlPart == PartAt(result, CHOOSE q \in HtmlPaths(result) : TRUE)
ImagePart == PartAt(result, CHOOSE q \in ImagePaths(result) : TRUE)

Embedded == Returned /\ ImagePaths(result) # {}

\* Number of places where tok starts in s.
Occurrences(s, tok) == Cardinality({i \in 1..Len(s) : MatchAt(s, i, tok)})

\* The base64 payload of a data-URI-style string: the text after the first
\* comma, or the whole string when it has no header.
PayloadOf(image) ==
    IF \E i \in 1..Len(image.val) : image.val[i] = ","
    THEN After(image.val, ",") ELSE image.val

\* RFC 4648 base64 text: alphabet characters in groups of four, the last
\* group possibly ending in one or two pads.
WellFormedBase64(p) ==
    /\ Len(p) % 4 = 0
    /\ \A i \in 1..Len(p) : p[i] \in Base64Alphabet \cup {"="}
    /\ \A i \in 1..Len(p) : p[i] = "=" => i >= Len(p) - 1
    /\ (Len(p) > 0 /\ p[Len(p) - 1] = "=") => p[Len(p)] = "="

PlaceholderPresent == Contains(html_body, PLACEHOLDER)
ImageSupplied == Truthy(image_data)

(* ------------------------------ claims -------------------------------- *)

\* C1 (as stated): no text part of the returned message, plain or HTML,
\* contains the literal placeholder token, whatever the body and image.
C1_NoPlaceholderInOutput ==
    Returned =>
        \A q \in TextPaths(result) :
            ~Contains(PartAt(result, q).body, PLACEHOLDER)

\* C2: the returned message holds a related container with an image part
\* exactly when image data was supplied, the placeholder is in the body and
\* the payload decoded; otherwise it holds neither.
C2_ImageBranchIff ==
    Returned =>
        LET decoded == /\ image_data.kind = "str"
                       /\ b64decode(PayloadOf(image_data)).ok
            expect  == ImageSupplied /\ PlaceholderPresent /\ decoded
        IN  /\ expect =>
                /\ Branch.subtype = "related"
                /\ Cardinality(RelatedPaths(result)) = 1
                /\ Cardinality(ImagePaths(result)) = 1
                /\ Branch.parts[2].maintype = "image"
            /\ ~expect =>
                /\ ImagePaths(result) = {}
                /\ RelatedPaths(result) = {}

C2_Witness ==
    /\ Embedded
    /\ Branch.subtype = "related"
    /\ Len(image_data.val) > 0

\* C3 (as stated): with the placeholder present and a payload that is not
\* well-formed base64, the HTML part carries the fallback notice and the
\* message has no image part and no related container.
C3_MalformedGivesFallback ==
    (/\ Returned
     /\ PlaceholderPresent
     /\ ImageSupplied
     /\ image_data.kind = "str"
     /\ ~WellFormedBase64(PayloadOf(image_data)))
    =>  /\ IsLeaf(Branch, "text", "html")
        /\ Contains(Branch.body, FALLBACK_NOTICE)
        /\ ~Contains(Branch.body, PLACEHOLDER)
        /\ ImagePaths(result) = {}
        /\ RelatedPaths(result) = {}

\* C4 (as stated): when decoding fails inside the assembler the returned
\* result carries a warning the caller can read: a status field of the
\* result or a header beyond From, To and Subject.
C4_WarningSurfaced ==
    (/\ Returned
     /\ PlaceholderPresent
     /\ ImageSupplied
     /\ image_data.kind = "str"
     /\ ~b64decode(PayloadOf(image_data)).ok)
    =>  \/ "warning" \in DOMAIN result
        \/ "status" \in DOMAIN result
        \/ \E i \in 1..Len(result.headers) :
              result.headers[i][1] \notin {"From", "To", "Subject"}

\* C5: every returned message is a mixed root whose only child is an
\* alternative container with exactly two children, the plain-text part and
\* one HTML-bearing branch; the message has one plain part and one HTML part.
C5_OneTextOneHtmlBranch ==
    Returned =>
        /\ result.maintype = "multipart" /\ result.subtype = "mixed"
        /\ Len(result.parts) = 1
        /\ Alternative.maintype = "multipart"
        /\ Alternative.subtype = "alternative"
        /\ Len(Alternative.parts) = 2
        /\ IsLeaf(TextPart, "text", "plain")
        /\ \/ IsLeaf(Branch, "text", "html")
           \/ /\ Branch.maintype = "multipart" /\ Branch.subtype = "related"
              /\ Cardinality({i \in 1..Len(Branch.parts) :
                                 IsLeaf(Branch.parts[i], "text", "html")}) = 1
        /\ Cardinality(PlainPaths(result)) = 1
        /\ Cardinality(HtmlPaths(result)) = 1

C5_Witness ==
    /\ Embedded
    /\ Len(Alternative.parts) = 2
    /\ Occurrences(html_body, PLACEHOLDER) >= 1

\* C6: with no image supplied, or no placeholder in the body, the message
\* has exactly two leaf parts, plain text and HTML, no related container and
\* no image part, and the HTML part is the body with the placeholder
\* replaced by the empty string.
C6_NoImageTwoLeaves ==
    (Returned /\ (~ImageSupplied \/ ~PlaceholderPresent))
    =>  /\ Alternative.parts = << TextPart, Branch >>
        /\ IsLeaf(TextPart, "text", "plain")
        /\ IsLeaf(Branch, "text", "html")
        /\ Cardinality(PartPaths(result)) = 4
        /\ RelatedPaths(result) = {}
        /\ ImagePaths(result) = {}
        /\ Branch.body = StrReplace(html_body, PLACEHOLDER, <<>>)
        /\ ~PlaceholderPresent => Branch.body = html_body
        /\ Len(Branch.body) =
              Len(html_body)
                - Len(PLACEHOLDER) * Occurrences(html_body, PLACEHOLDER)

C6_Witness ==
    /\ Returned
    /\ ~ImageSupplied
    /\ PlaceholderPresent
    /\ Len(Branch.body) < Len(html_body)

\* The header of part p named name, as <<name, value, ...>> (<<>> if none).
HeaderOf(p, name) ==
    IF \E i \in 1..Len(p.headers) : p.headers[i][1] = name
    THEN p.headers[CHOOSE i \in 1..Len(p.headers) : p.headers[i][1] = name]
    ELSE <<>>

\* The identifier inside the angle brackets of a Content-ID header.
CidOf(p) ==
    LET h == HeaderOf(p, "Content-ID")
    IN  IF h = <<>> \/ Len(h[2]) < 2 THEN <<>>
        ELSE SubSeq(h[2], 2, Len(h[2]) - 1)

\* Every piece of text of a message: <<path, 0, 0>> is the body of the part
\* at path, <<path, i, k>> the k-th field of its i-th header.
TextSites(m) ==
    {<<q, 0, 0>> : q \in PartPaths(m)}
      \cup {<<q, i, k>> : q \in PartPaths(m), i \in 1..3, k \in 2..3}

SiteText(m, site) ==
    LET p == PartAt(m, site[1])
    IN  IF site[2] = 0 THEN p.body
        ELSE IF site[2] > Len(p.headers) THEN <<>>
        ELSE IF site[3] > Len(p.headers[site[2]]) THEN <<>>
        ELSE p.headers[site[2]][site[3]]

\* Number of occurrences of tok anywhere in the message.
OccurrencesInMessage(m, tok) ==
    Cardinality(UNION {{<<site, i>> : i \in {k \in 1..Len(SiteText(m, site)) :
                                                 MatchAt(SiteText(m, site), k, tok)}} :
                       site \in TextSites(m)})

ValidImagePayload ==
    /\ image_data.kind = "str"
    /\ ImageSupplied
    /\ WellFormedBase64(PayloadOf(image_data))

\* C7: with the placeholder in the body and a valid image payload, the HTML
\* part references cid:<id>, <id> is the Content-ID of exactly one image
\* part of the message, and that part has an inline Content-Disposition.
C7_CidReferencesOneInlineImage ==
    (Returned /\ PlaceholderPresent /\ ValidImagePayload)
    =>  /\ Cardinality(ImagePaths(result)) = 1
        /\ Cardinality(HtmlPaths(result)) = 1
        /\ CidOf(ImagePart) # <<>>
        /\ Contains(HtmlPart.body, <<"cid:">> \o CidOf(ImagePart))
        /\ \A i \in 1..Len(HtmlPart.body) :
              HtmlPart.body[i] = "cid:" =>
                  MatchAt(HtmlPart.body, i + 1, CidOf(ImagePart))
        /\ Len(HeaderOf(ImagePart, "Content-Disposition")) >= 2
        /\ HeaderOf(ImagePart, "Content-Disposition")[2] = <<"inline">>

C7_Witness ==
    /\ Embedded
    /\ PlaceholderPresent
    /\ ValidImagePayload
    /\ Len(PayloadOf(image_data)) > 0
    /\ Contains(HtmlPart.body, <<"cid:">> \o CidOf(ImagePart))

\* C8 (as stated): raw image bytes and a body with the placeholder give one
\* image part of subtype png holding those bytes, referenced by cid from the
\* HTML part, and no fallback notice.
C8_RawBytesEmbedded ==
    (/\ Returned
     /\ PlaceholderPresent
     /\ ImageSupplied
     /\ image_data.kind = "bytes")
    =>  /\ Cardinality(ImagePaths(result)) = 1
        /\ ImagePart.subtype = "png"
        /\ ImagePart.body = image_data.val
        /\ Contains(HtmlPart.body, <<"cid:">> \o CidOf(ImagePart))
        /\ ~Contains(HtmlPart.body, FALLBACK_NOTICE)

\* C9 (as stated): the content identifier of a message with an embedded
\* image occurs exactly twice in the whole message.
C9_CidExactlyTwice ==
    Embedded => OccurrencesInMessage(result, CidOf(ImagePart)) = 2

\* C9 (amended): the content identifier occurs once in the image part's
\* Content-ID header, once in the HTML body for each placeholder occurrence
\* of the input body, and nowhere else in the message.
C9_CidOncePerPlaceholder ==
    Embedded =>
        /\ CidOf(ImagePart) # <<>>
        /\ Occurrences(HeaderOf(ImagePart, "Content-ID")[2], CidOf(ImagePart)) = 1
        /\ Occurrences(HtmlPart.body, CidOf(ImagePart))
              = Occurrences(html_body, PLACEHOLDER)
        /\ \A i \in 1..Len(HtmlPart.body) :
              MatchAt(HtmlPart.body, i, CidOf(ImagePart))
                  => (i > 1 /\ HtmlPart.body[i - 1] = "cid:")
        /\ OccurrencesInMessage(result, CidOf(ImagePart))
              = 1 + Occurrences(html_body, PLACEHOLDER)

C9_Witness ==
    /\ Embedded
    /\ Occurrences(html_body, PLACEHOLDER) = 2
    /\ OccurrencesInMessage(result, CidOf(ImagePart)) = 3

\* The text every placeholder occurrence of this call is replaced by.
Replacement ==
    IF Embedded THEN <<"cid:">> \o CidOf(ImagePart) ELSE FALLBACK_NOTICE

\* C10: when the body holds the placeholder more than once and image data
\* was supplied, every occurrence is replaced by the same text (the cid
\* reference, or the fallback notice when decoding failed): none is left,
\* and putting the placeholder back for that text gives the input body.
C10_AllOccurrencesSameReplacement ==
    (/\ Returned
     /\ ImageSupplied
     /\ Occurrences(html_body, PLACEHOLDER) >= 2)
    =>  /\ ~Contains(HtmlPart.body, PLACEHOLDER)
        /\ Occurrences(HtmlPart.body, Replacement)
              = Occurrences(html_body, PLACEHOLDER)
        /\ StrReplace(HtmlPart.body, Replacement, PLACEHOLDER) = html_body
        /\ Len(HtmlPart.body) = Len(html_body)
              + (Len(Replacement) - Len(PLACEHOLDER))
                  * Occurrences(html_body, PLACEHOLDER)

C10_Witness ==
    /\ Embedded
    /\ Occurrences(html_body, PLACEHOLDER) >= 2
    /\ Occurrences(HtmlPart.body, Replacement) >= 2

C10_WitnessFallback ==
    /\ Returned
    /\ ~Embedded
    /\ ImageSupplied
    /\ Occurrences(html_body, PLACEHOLDER) >= 2
    /\ Occurrences(HtmlPart.body, FALLBACK_NOTICE) >= 2

(* --------------------- the plain-text alternative --------------------- *)
\* The text s[i..j] is one markup tag: "<", one or more characters none of
\* which is "<", and the first ">" that can close it.
IsTag(s, i, j) ==
    /\ s[i] = "<"
    /\ j >= i + 2 /\ j <= Len(s)
    /\ s[j] = ">"
    /\ \A k \in (i + 1)..(j - 1) : s[k] # "<"
    /\ \A k \in (i + 2)..(j - 1) : s[k] # ">"

\* TagCover(s)[i] is the last position of the latest tag that starts at or
\* before i, reading the tags from the left without overlap (0 if none).
TagCover(s) ==
    LET cov[i \in 0..Len(s)] ==
            IF i = 0 THEN 0
            ELSE IF cov[i - 1] >= i THEN cov[i - 1]
            ELSE IF \E j \in 1..Len(s) : IsTag(s, i, j)
                 THEN CHOOSE j \in 1..Len(s) : IsTag(s, i, j)
                 ELSE cov[i - 1]
    IN  cov

\* The symbols of s at the positions K, in order.
Pick(s, K) ==
    [n \in 1..Cardinality(K) |->
        s[CHOOSE i \in K : Cardinality({k \in K : k < i}) = n - 1]]

WithoutTags(s) == Pick(s, {i \in 1..Len(s) : TagCover(s)[i] < i})

\* Every run of blanks reduced to its first blank.
RunsCollapsed(s) ==
    Pick(s, {i \in 1..Len(s) : ~(s[i] = " " /\ i > 1 /\ s[i - 1] = " ")})

\* Blanks before the first and after the last non-blank symbol removed.
Trimmed(s) ==
    Pick(s, {i \in 1..Len(s) :
                /\ \E k \in 1..i : s[k] # " "
                /\ \E k \in i..Len(s) : s[k] # " "})

\* p is q with every placeholder token replaced by the marker [Image].
MarkerForPlaceholder(p, q) ==
    /\ ~Contains(p, PLACEHOLDER)
    /\ Occurrences(p, IMAGE_MARKER) = Occurrences(q, PLACEHOLDER)
    /\ StrReplace(p, IMAGE_MARKER, PLACEHOLDER) = q

ExampleBody ==
    <<"<", "p", ">", "Hello", " ", "{{IMAGE_", "PLACEHOLDER}}", "<", "/p", ">">>

\* C11 (as stated): the plain-text part is the body with every tag removed,
\* every run of whitespace collapsed to one space and every remaining
\* placeholder replaced by [Image], and nothing else done to it.
C11_PlainTextAsStated ==
    Returned =>
        MarkerForPlaceholder(TextPart.body, RunsCollapsed(WithoutTags(html_body)))

\* C11 (amended): the plain-text part is the body with every tag removed,
\* every run of whitespace collapsed to one space, leading and trailing
\* whitespace removed and every remaining placeholder replaced by [Image];
\* the example body gives "Hello [Image]"; the part never holds the token.
C11_PlainTextStripped ==
    Returned =>
        /\ MarkerForPlaceholder(TextPart.body,
                                Trimmed(RunsCollapsed(WithoutTags(html_body))))
        /\ html_body = ExampleBody => TextPart.body = <<"Hello", " ", "[Image]">>
        /\ ~Contains(TextPart.body, PLACEHOLDER)

C11_Witness ==
    /\ Returned
    /\ html_body = ExampleBody
    /\ TextPart.body = <<"Hello", " ", "[Image]">>

\* A second case of C11: an occurrence that only exists once a tag between
\* its fragments is removed, preceded by a blank that is trimmed.
C11_WitnessJoined ==
    /\ Returned
    /\ ~PlaceholderPresent
    /\ Len(html_body) > 0 /\ html_body[1] = " "
    /\ Contains(TextPart.body, IMAGE_MARKER)

(* -------------------------- the image part ---------------------------- *)
\* The text of the data-URI header of image_data between its first
\* "image/" segment and the next ";" (<<>> when there is no such segment or
\* no header at all).
NamedSubtype ==
    LET v == image_data.val
        c == IndexOf(v, ",")
        h == IF c = 0 THEN <<>> ELSE SubSeq(v, 1, c - 1)
        a == IndexOf(h, "image/")
        rest == IF a = 0 THEN <<>> ELSE SubSeq(h, a + 1, Len(h))
        stops == {k \in 1..Len(rest) : rest[k] \in {";", "image/"}}
        e == IF stops = {} THEN Len(rest)
             ELSE (CHOOSE k \in stops : \A k2 \in stops : k <= k2) - 1
    IN  SubSeq(rest, 1, e)

C12_WitnessJpg ==
    /\ Embedded
    /\ NamedSubtype = <<"jpg">>
    /\ ImagePart.subtype = "jpeg"

\* C13: with an image embedded, the alternative holds the plain-text part
\* and then the related container, and the related container holds the HTML
\* part and then the image part.
C13_PartOrder ==
    Embedded =>
        /\ Len(Alternative.parts) = 2
        /\ IsLeaf(Alternative.parts[1], "text", "plain")
        /\ Alternative.parts[2].maintype = "multipart"
        /\ Alternative.parts[2].subtype = "related"
        /\ Len(Alternative.parts[2].parts) = 2
        /\ IsLeaf(Alternative.parts[2].parts[1], "text", "html")
        /\ Alternative.parts[2].parts[2].maintype = "image"
        /\ Alternative.parts[2].parts[2].parts = <<>>

C13_Witness ==
    /\ Embedded
    /\ Alternative.parts[2].parts[2].maintype = "image"
    /\ Alternative.parts[2].parts[1].subtype = "html"

\* C17: an empty body, with or without image data, gives a message with an
\* empty plain-text part, an empty HTML part and no image part.
C17_EmptyBody ==
    (Returned /\ html_body = <<>>)
    =>  /\ result.maintype = "multipart"
        /\ IsLeaf(TextPart, "text", "plain") /\ TextPart.body = <<>>
        /\ IsLeaf(Branch, "text", "html") /\ Branch.body = <<>>
        /\ ImagePaths(result) = {}
        /\ RelatedPaths(result) = {}

C17_Witness ==
    /\ Returned
    /\ html_body = <<>>
    /\ ImageSupplied
    /\ image_data.kind = "str"
    /\ b64decode(PayloadOf(image_data)).ok
    /\ Branch.body = <<>>

(* ----------------------- two or more invocations ---------------------- *)
RECURSIVE ReplaceInPart(_, _, _)
\* Part p with every occurrence of old, in its body, its header values and
\* its sub-parts, replaced by new.
ReplaceInPart(p, old, new) ==
    LET hs == p.headers
        ps == p.parts
    IN  [p EXCEPT
           !.body = StrReplace(p.body, old, new),
           !.headers = [i \in 1..Len(hs) |->
                          [k \in 1..Len(hs[i]) |->
                              IF k = 1 THEN hs[i][k]
                              ELSE StrReplace(hs[i][k], old, new)]],
           !.parts = [i \in 1..Len(ps) |-> ReplaceInPart(ps[i], old, new)]]

\* The content identifier of message m (<<>> when it has no image part).
MessageCid(m) ==
    IF ImagePaths(m) = {} THEN <<>>
    ELSE CidOf(PartAt(m, CHOOSE q \in ImagePaths(m) : TRUE))

\* Message m with its content identifier replaced by a fixed token.
Normalised(m) ==
    IF MessageCid(m) = <<>> THEN m
    ELSE ReplaceInPart(m, MessageCid(m), <<"CID">>)

Done(h) == inv # <<>> /\ inv[h].pc = "returned"
DoneEmbedded(h) == Done(h) /\ ImagePaths(inv[h].result) # {}

\* What invocation h returns when it runs alone in a fresh process.
Alone(h) ==
    BuildMessage(inv[h].args.sender, inv[h].args.receiver,
                 inv[h].args.subject, inv[h].args.html_body,
                 inv[h].args.image_data, 0)

\* C14: two invocations with identical arguments return messages that are
\* identical once the content identifier is replaced by a fixed token.
C14_IdenticalUpToCid ==
    \A h1, h2 \in Handlers :
        (Done(h1) /\ Done(h2) /\ inv[h1].args = inv[h2].args)
        => Normalised(inv[h1].result) = Normalised(inv[h2].result)

C14_Witness ==
    /\ DoneEmbedded(1) /\ DoneEmbedded(2)
    /\ inv[1].args = inv[2].args
    /\ inv[1].result # inv[2].result
    /\ Occurrences(inv[1].args.html_body, PLACEHOLDER) = 2

\* C15: under every interleaving each invocation returns the message it
\* returns when run alone (the content identifier apart), and two messages
\* with embedded images never carry the same content identifier.
C15_IndependentInvocations ==
    /\ \A h \in Handlers :
          Done(h) => Normalised(inv[h].result) = Normalised(Alone(h))
    /\ \A h1, h2 \in Handlers :
          (h1 # h2 /\ DoneEmbedded(h1) /\ DoneEmbedded(h2))
          => MessageCid(inv[h1].result) # MessageCid(inv[h2].result)

C15_Witness ==
    /\ DoneEmbedded(1) /\ DoneEmbedded(2)
    /\ inv[1].args # inv[2].args
    /\ inv[1].locals.cidnum > inv[2].locals.cidnum
    /\ MessageCid(inv[1].result) # MessageCid(inv[2].result)

(* ------------------------------ headers ------------------------------- *)
\* The values of the headers of part p named name, in order.
HeaderValues(p, name) ==
    LET K == {i \in 1..Len(p.headers) : p.headers[i][1] = name}
    IN  [n \in 1..Cardinality(K) |->
            p.headers[CHOOSE i \in K : Cardinality({k \in K : k < i}) = n - 1][2]]

\* C16: on every branch the returned message has exactly one From, one To
\* and one Subject header, equal to the sender, receiver and subject
\* arguments as passed, and no other address or subject header anywhere.
C16_HeadersAsPassed ==
    Returned =>
        /\ HeaderValues(result, "From") = <<sender>>
        /\ HeaderValues(result, "To") = <<receiver>>
        /\ HeaderValues(result, "Subject") = <<subject>>
        /\ \A i \in 1..Len(result.headers) :
              result.headers[i][1] \in {"From", "To", "Subject"}
        /\ \A q \in PartPaths(result) \ {<<>>} :
              \A i \in 1..Len(PartAt(result, q).headers) :
                  PartAt(result, q).headers[i][1]
                      \in {"Content-ID", "Content-Disposition"}

C16_Witness ==
    /\ Returned
    /\ sender[1] = " " /\ subject[1] = " " /\ receiver[Len(receiver)] = " "
    /\ HeaderValues(result, "From") = <<sender>>
    /\ Embedded

(* ------------------------- spreadsheet headers ------------------------ *)
\* Column c answers to the k-th canonical field: its stripped lower-cased
\* header is the field's name or one of its aliases.
AnswersTo(c, k) ==
    \E a \in 1..Len(ALIASES[k]) : StripLower(c) = ALIASES[k][a]

FieldHasColumn(cols, k) == \E i \in 1..Len(cols) : AnswersTo(cols[i], k)

\* C18 (as stated): every canonical field that has a column of its name or
\* alias is mapped to such a column; the other fields, and only those, are
\* filled with the leftmost columns no field was matched to, in order.
C18_FieldsMappedByName ==
    sheet.pc = "returned" =>
        LET cols == sheet.cols
            m == sheet.mapping
            matched == {k \in 1..Len(LABELS) : FieldHasColumn(cols, k)}
            taken == {m[k][1] : k \in matched}
            spare == SelectSeq(cols, LAMBDA c : c \notin taken)
            missing == {k \in 1..Len(LABELS) : k \notin matched}
        IN  /\ \A k \in 1..Len(LABELS) : Len(m[k]) = 1
            /\ \A k \in matched : AnswersTo(m[k][1], k)
            /\ \A k \in missing :
                  m[k][1] = spare[Cardinality({j \in missing : j <= k})]

(* --------------------------- the SMTP handlers ------------------------ *)
RequiredFields == {"to", "subject", "body", "email", "password"}

\* The text the request carries for a field ("" for an absent field).
FieldText(k) == IF http.data[k].kind = "str" THEN http.data[k].val ELSE <<>>

\* Every required field of the request is a string or absent.
FieldsAreText == \A k \in RequiredFields : http.data[k].kind \in {"str", "missing"}

SomeFieldEmpty == \E k \in RequiredFields : Trimmed(FieldText(k)) = <<>>

NotGmailSender ==
    /\ http.handler = "gmail"
    /\ ~Contains(LowerText(FieldText("email")), <<"@", "gmail.com">>)

OpsDone == [i \in 1..Len(http.ops) |-> http.ops[i][1]]
Transport == {"connect", "starttls", "login", "sendmail", "quit"}

C19_WitnessEmptyPassword ==
    /\ http.pc = "responded"
    /\ http.handler = "smtp"
    /\ FieldsAreText
    /\ \A k \in RequiredFields : (k = "password") <=> (Trimmed(FieldText(k)) = <<>>)
    /\ http.response.code = 400

\* C20: on a request's connection the operations run in the order connect,
\* starttls (the configuration has tls), login, sendmail, each at most once
\* and each only after the one before it returned; sendmail never runs
\* unless login returned, and a 200 success response is only given after
\* sendmail returned.
C20_SmtpOrder ==
    http.pc # "idle" =>
        /\ \A i, j \in 1..Len(http.ops) : OpsDone[i] = OpsDone[j] => i = j
        /\ \A i \in 1..Len(http.ops) :
              /\ OpsDone[i] = "starttls" =>
                    /\ i > 1 /\ http.ops[i - 1] = <<"connect", "ok">>
                    /\ http.smtp_config.tls
              /\ OpsDone[i] = "login" =>
                    /\ \E j \in 1..(i - 1) : http.ops[j] = <<"connect", "ok">>
                    /\ http.smtp_config.tls =>
                          (i > 1 /\ http.ops[i - 1] = <<"starttls", "ok">>)
              /\ OpsDone[i] = "sendmail" =>
                    (i > 1 /\ http.ops[i - 1] = <<"login", "ok">>)
        /\ (http.response # NoneValue /\ http.response.code = 200) =>
              /\ http.response.success
              /\ \E i \in 1..Len(http.ops) : http.ops[i] = <<"sendmail", "ok">>
        /\ (http.response # NoneValue /\ http.response.success) =>
              http.response.code = 200

C20_Witness ==
    /\ http.pc = "responded"
    /\ http.response.code = 200
    /\ OpsDone = <<"assemble", "connect", "starttls", "login", "sendmail", "quit">>

\* C21: once a request has its response, the SMTP connection it opened is
\* closed, whichever operation failed or none; a request whose connect
\* returned has had its connection closed by the time it is answered.
C21_ConnectionClosed ==
    http.pc = "responded" =>
        /\ http.conn # "open"
        /\ (\E i \in 1..Len(http.ops) : http.ops[i] = <<"connect", "ok">>)
              => http.conn = "closed"

C21_Witness ==
    /\ http.pc = "responded"
    /\ http.conn = "closed"
    /\ \E i \in 1..Len(http.ops) :
          /\ OpsDone[i] \in {"starttls", "login", "sendmail"}
          /\ http.ops[i][2] # "ok"

\* C22 (as stated): every request gets one response; after validation a
\* request in which login raised an authentication error is answered 401
\* with success false, and one in which any other operation raised is
\* answered 500 with success false.
C22_FailureIsErrorValue ==
    (http.pc = "responded" /\ http.ops # <<>>) =>
        LET failed(o) == \E i \in 1..Len(http.ops) :
                            http.ops[i][2] = o
        IN  /\ http.response # NoneValue
            /\ failed("auth") =>
                  http.response = [code |-> 401, success |-> FALSE]
            /\ (failed("error") /\ ~failed("auth")) =>
                  http.response = [code |-> 500, success |-> FALSE]

\* C23: the SMTP handler's configuration is the first entry of the table,
\* in declaration order, whose key occurs in the lower-cased text after the
\* last '@' of the sender address, and the office365.com entry when no key
\* occurs there.
KeyOrder ==
    <<"hotmail.com", "outlook.com", "gmail.com", "yahoo.com", "office365.com">>

\* The text after the last '@' of s (all of s when it has none).
AfterLastAt(s) ==
    IF \A i \in 1..Len(s) : s[i] # "@" THEN s
    ELSE LET last == CHOOSE i \in 1..Len(s) :
                        /\ s[i] = "@"
                        /\ \A j \in (i + 1)..Len(s) : s[j] # "@"
         IN  [k \in 1..(Len(s) - last) |-> s[last + k]]

SenderDomain == AfterLastAt(LowerText(http.fields.email))
KeyInDomain(k) == \E i \in 1..Len(SenderDomain) : SenderDomain[i] = KeyOrder[k]

C23_ConfigSelected ==
    (http.handler = "smtp" /\ http.ops # <<>>) =>
        /\ \E k \in 1..5 : /\ http.smtp_config = SMTP_CONFIGS[k]
                            /\ http.smtp_config.key = KeyOrder[k]
        /\ \A k \in 1..5 :
              (KeyInDomain(k) /\ \A j \in 1..(k - 1) : ~KeyInDomain(j))
                 => http.smtp_config.key = KeyOrder[k]
        /\ (\A k \in 1..5 : ~KeyInDomain(k))
              => http.smtp_config.key = "office365.com"

\* Two keys in the domain, the later one of the table first in the text.
C23_Witness ==
    /\ http.handler = "smtp" /\ http.ops # <<>>
    /\ KeyInDomain(1) /\ KeyInDomain(3)
    /\ http.smtp_config.key = "hotmail.com"

\* No key in the domain, and a key before the '@'.
C23_WitnessFallback ==
    /\ http.handler = "smtp" /\ http.ops # <<>>
    /\ \A k \in 1..5 : ~KeyInDomain(k)
    /\ http.smtp_config.key = "office365.com"

(* --------------------------- the Outlook handlers --------------------- *)
AccountsAnswered ==
    http.handler = "accounts" /\ http.pc = "responded" /\ http.response.success

\* The accounts of the response that fallback (1) and (2) point at.
NamedLikeStore ==
    {k \in 1..Len(http.response.accounts) :
        /\ http.env.store # "raise"
        /\ http.response.accounts[k].displayName = http.env.store}
AddressedLikeSending ==
    {k \in 1..Len(http.response.accounts) :
        /\ http.env.sending.kind = "account"
        /\ Lower(http.response.accounts[k].smtpAddress)
             = Lower(safe_get_smtp(http.env.sending.account,
                                   http.env.current_user))}
Least(S) == CHOOSE k \in S : \A j \in S : k <= j

\* C24: in a successful response of get_accounts with accounts, exactly
\* one account has isDefault true and defaultAccount is that account: the
\* first one named like the default store, else the first one whose SMTP
\* address is (letter case aside) the sending account's of a new mail item,
\* else the first account; with no accounts defaultAccount is None and no
\* account is marked.
C24_OneDefaultAccount ==
    AccountsAnswered =>
        LET acc == http.response.accounts
            marked == {k \in 1..Len(acc) : acc[k].isDefault}
            expected == IF NamedLikeStore # {} THEN Least(NamedLikeStore)
                        ELSE IF AddressedLikeSending # {}
                        THEN Least(AddressedLikeSending)
                        ELSE 1
        IN  /\ http.response.totalAccounts = Len(acc)
            /\ acc # <<>> =>
                  /\ Cardinality(marked) = 1
                  /\ marked = {expected}
                  /\ http.response.defaultAccount = acc[expected]
            /\ acc = <<>> =>
                  /\ http.response.defaultAccount = NoneValue
                  /\ marked = {}

\* Fallback (2) decides, for the second of two accounts.
C24_Witness ==
    /\ AccountsAnswered
    /\ Len(http.response.accounts) = 2
    /\ NamedLikeStore = {}
    /\ AddressedLikeSending = {2}
    /\ http.response.defaultAccount.index = http.response.accounts[2].index
    /\ http.response.accounts[2].isDefault

\* Fallback (1) with two accounts named like the store.
C24_WitnessStore ==
    /\ AccountsAnswered
    /\ NamedLikeStore = {1, 2}
    /\ http.response.accounts[1].isDefault
    /\ ~http.response.accounts[2].isDefault

\* Fallback (3): nothing matches and the first account is taken.
C24_WitnessFirst ==
    /\ AccountsAnswered
    /\ Len(http.response.accounts) = 2
    /\ NamedLikeStore = {} /\ AddressedLikeSending = {}
    /\ http.response.accounts[1].isDefault

\* C25 (as stated): a health_check response with status 'healthy' has no
\* error, and is only given when a mail item could be created.
C25_HealthyMeansNoError ==
    (/\ http.handler = "health"
     /\ http.pc = "responded"
     /\ http.response.status = "healthy")
    =>  /\ http.response.message = Str(<<"Outlook is ready for sending emails">>)
        /\ http.response.error = NoneValue
        /\ http.env.create_item = "ok"

ImageFailed == \E i \in 1..Len(http.ops) : http.ops[i] = <<"image", "error">>
SendCalls ==
    {i \in 1..Len(http.ops) :
        http.ops[i][1] = "send" /\ http.ops[i][2] \in {"ok", "send_error"}}
FieldGiven(k) == http.data[k].kind = "str" /\ http.data[k].val # <<>>

\* C26: in the local server's send_outlook_email, a request whose image
\* failed to decode, save or attach is answered 400 with the image
\* processing error and mail.Send is not called for it; mail.Send is called
\* at most once per request, and only for a request that has to, subject
\* and body.
C26_ImageFailureStopsSend ==
    http.handler = "local" =>
        /\ http.sends = Cardinality(SendCalls)
        /\ http.sends <= 1
        /\ http.sends > 0 =>
              FieldGiven("to") /\ FieldGiven("subject") /\ FieldGiven("body")
        /\ ImageFailed =>
              /\ http.pc = "responded"
              /\ http.response
                   = [code |-> 400, success |-> FALSE,
                      error |-> "Image processing error"]
              /\ http.sends = 0
        /\ (/\ http.pc \in {"send", "cleanup", "responded"}
            /\ FieldGiven("imageData")
            /\ \E i \in 1..Len(http.ops) : http.ops[i] = <<"create", "ok">>
            /\ \A i \in 1..Len(http.data.imageData.val) :
                  http.data.imageData.val[i] # ",")
           => ImageFailed

\* The attachment was added and setting its content id failed.
C26_Witness ==
    /\ http.handler = "local"
    /\ http.pc = "responded"
    /\ ImageFailed
    /\ http.mail.attached
    /\ http.response.code = 400
    /\ http.sends = 0

\* C27 (as stated): when either send_outlook_email handler has answered,
\* no temporary image file it created is left.
C27_TempFileDeleted ==
    (http.handler \in {"local", "improved"} /\ http.pc = "responded")
        => http.files = 0

(* ------------------------------ the deeplink -------------------------- *)
Encoded == sheet.pc = "returned" /\ sheet.fn = "encode"
Composed == sheet.pc = "returned" /\ sheet.fn = "compose"

Count(s, c) == Cardinality({i \in 1..Len(s) : s[i] = c})

\* C28 (as stated): the encoding of a value has %20 for each of its spaces
\* and neither a raw space nor a '+' in it; a missing value (None, NaN)
\* encodes to the empty string.
C28_SpacesAsPercent20 ==
    Encoded =>
        /\ sheet.value.kind \in {"none", "nan"} => sheet.out = <<>>
        /\ sheet.value.kind = "str" =>
              /\ Count(sheet.out, " ") = 0
              /\ Count(sheet.out, "+") = 0
              /\ Count(sheet.out, "%20") = Count(sheet.value.val, " ")

RECURSIVE SplitOn(_, _)
\* The pieces of s between the occurrences of c.
SplitOn(s, c) ==
    IF IndexOf(s, c) = 0 THEN <<s>>
    ELSE <<Before(s, c)>> \o SplitOn(After(s, c), c)

\* The character a percent-encoding stands for.
Unquote(c) ==
    CASE c = "%20" -> " "
      [] c = "%26" -> "&"
      [] c = "%3D" -> "="
      [] c = "%23" -> "#"
      [] c = "%3F" -> "?"
      [] c = "%2B" -> "+"
      [] OTHER -> c

\* The query parameters a reader of the URL finds: the fragment is cut at
\* the first '#', the query starts after the first '?', parameters are
\* parted by '&' and a name from its value by the first '='.
ParsedQuery(url) ==
    LET pieces == SplitOn(After(Before(url, "#"), "?"), "&")
    IN  [i \in 1..Len(pieces) |->
            [k |-> Before(pieces[i], "="),
             v |-> [j \in 1..Len(After(pieces[i], "=")) |->
                       Unquote(After(pieces[i], "=")[j])]]]

\* C29 (as stated): the parameters of the composed URL are to, subject and
\* body in this order, then cc and then bcc when these are not empty, each
\* with the value of its field, whatever characters the values hold.
C29_ParametersAsGiven ==
    Composed =>
        LET r == sheet.row
            given == << [k |-> <<"to">>, v |-> r.to],
                        [k |-> <<"subject">>, v |-> r.subject],
                        [k |-> <<"body">>, v |-> r.body] >>
                       \o (IF r.cc # <<>> THEN <<[k |-> <<"cc">>, v |-> r.cc]>>
                           ELSE <<>>)
                       \o (IF r.bcc # <<>> THEN <<[k |-> <<"bcc">>, v |-> r.bcc]>>
                           ELSE <<>>)
        IN  ParsedQuery(sheet.out) = given

====
